---- MODULE Spec2Model ----
(***************************************************************************)
(* Model of the PNPM link manager of rush-lib                              *)
(* (apps/rush-lib/src/cli/logic/pnpm/PnpmLinkManager.ts).                  *)
(*                                                                         *)
(* _linkProjects() walks the configured projects in order; _linkProject()  *)
(* builds the tree of one project (one child per rush dependency, one per  *)
(* regular dependency), creates the symlinks of the tree and the ".bin"    *)
(* link; the link manifest (rush-link.json) is saved after the loop.       *)
(* An exception thrown anywhere ends the run with a rejected promise.      *)
(***************************************************************************)
EXTENDS Integers, Sequences, FiniteSets, TLC

---------------------------------------------------------------------------
(* Bounds of the model *)

\* the largest number of rushDependencies keys of one temp package.json
MaxRushDeps == 2

\* the largest number of dependencies keys of one temp package.json
MaxDeps == 1

\* how many times _linkProjects() is invoked in one behaviour
MaxRuns == 2

\* packages that have a change file to write in one run of ChangeAction
MaxChangeFiles == 2

\* ordinary dependencies a manifest lists, Nested strategy
MaxNestedDeps == 2

\* (name, version) pairs the backend's staging output lacks
MaxMissing == 1

---------------------------------------------------------------------------
(* The rush configuration: this._rushConfiguration.projects *)

\* a folder of the repository that holds a project
ProjectFolderPath(folder) == [area |-> "projectFolder", owner |-> folder, entry |-> ""]

projects ==
  << [packageName |-> "a", tempProjectName |-> "@rush-temp/a",
      projectFolder |-> ProjectFolderPath("a")],
     [packageName |-> "b", tempProjectName |-> "@rush-temp/b",
      projectFolder |-> ProjectFolderPath("b")],
     [packageName |-> "c", tempProjectName |-> "@rush-temp/c",
      projectFolder |-> ProjectFolderPath("c")] >>

ProjectNames == {projects[i].packageName : i \in 1..Len(projects)}

\* this._rushConfiguration.getProjectByName(name): the project, or none (<<>>)
getProjectByName(name) ==
  SelectSeq(projects, LAMBDA p : p.packageName = name)

\* Utilities.parseScopedPackageName(tempProjectName).name
parseScopedPackageName(tempProjectName) ==
  CASE tempProjectName = "@rush-temp/a" -> "a"
    [] tempProjectName = "@rush-temp/b" -> "b"
    [] tempProjectName = "@rush-temp/c" -> "c"
    [] OTHER -> tempProjectName

unscopedTempProjectName(project) == parseScopedPackageName(project.tempProjectName)

\* names the temp package.json of a project may list under rushDependencies:
\* other projects and, for "a", a name that matches no project of the
\* configuration; "c" is a leaf of the project graph
StaleName == "gone"

InternalNames(p) ==
  CASE p = "a" -> {"b", "c", StaleName}
    [] p = "b" -> {"a"}
    [] OTHER -> {}

\* names the temp package.json of a project may list under dependencies: a
\* third-party package and, for "a", the published version of project "b"
ThirdPartyName == "lodash"

RegularNames(p) ==
  CASE p = "a" -> {ThirdPartyName, "b"}
    [] p = "b" -> {ThirdPartyName}
    [] OTHER -> {}

AllNames == ProjectNames \cup {StaleName, ThirdPartyName}

Versions == {"1.0.0", "2.0.0"}

BinName == ".bin"

---------------------------------------------------------------------------
(* Paths.  A path is a record: the folder it lives in (area), the project  *)
(* or package that folder belongs to (owner) and the last component.       *)

NoPath == [area |-> "", owner |-> "", entry |-> ""]

\* a link path in the folder of the project the dependency names, where there
\* is one, instead of in the folder of the package that is linked
NodeModulesPathInDependency(folderPath, dependencyName) ==
  [area |-> "project/node_modules",
   owner |-> IF getProjectByName(dependencyName) # <<>>
             THEN getProjectByName(dependencyName)[1].projectFolder.owner
             ELSE folderPath.owner,
   entry |-> dependencyName]

\* a link path in one node_modules folder for all the projects
NodeModulesPathShared(folderPath, dependencyName) ==
  [area |-> "project/node_modules", owner |-> "a", entry |-> dependencyName]

\* path.join(localPackage.folderPath, 'node_modules', dependencyName)
NodeModulesPath(folderPath, dependencyName) ==
  [area |-> "project/node_modules", owner |-> folderPath.owner, entry |-> dependencyName]

\* path.join(commonTempFolder, 'projects', `${unscopedTempProjectName}.tgz`)
pathToTgzFile(project) ==
  [area |-> "common/temp/projects", owner |-> unscopedTempProjectName(project), entry |-> ".tgz"]

\* uriEncode(pathToTgzFile.split(path.sep).join('/')): every "/" of the path
\* becomes "%2F", so the result is one folder name; distinct paths stay distinct
uriEncode(p) == [area |-> "%2F", owner |-> p.owner, entry |-> p.entry]

escapedPathToTgzFile(project) == uriEncode(pathToTgzFile(project))

\* path.join(commonTempFolder, 'node_modules', '.local', escapedPathToTgzFile, 'node_modules')
pathToLocalInstallation(project) ==
  [area |-> "common/temp/node_modules/.local",
   owner |-> escapedPathToTgzFile(project).owner,
   entry |-> "node_modules"]

\* path.join(pathToLocalInstallation, dependencyName)
dependencyLocalInstallationSymlink(project, dependencyName) ==
  [area |-> "common/temp/node_modules/.local",
   owner |-> pathToLocalInstallation(project).owner,
   entry |-> dependencyName]

\* path.join(commonTempFolder, 'node_modules', '.bin')
commonBinFolder == [area |-> "common/temp/node_modules", owner |-> "", entry |-> BinName]

\* the folder PNPM's store keeps for one version of one package
StorePath(name, version) == [area |-> "store", owner |-> name, entry |-> version]

---------------------------------------------------------------------------
(* The file system *)

\* what lstat finds at a path: nothing, a real populated directory, a symlink
Absent == [kind |-> "absent", target |-> NoPath]
RealDir == [kind |-> "dir", target |-> NoPath]
Symlink(target) == [kind |-> "symlink", target |-> target]

\* names that can appear under a project's node_modules folder
LinkNames == AllNames \cup {BinName}

\* what PNPM can have left at dependencyLocalInstallationSymlink for one
\* dependency name: nothing, a plain directory, a symlink into the store, or a
\* symlink whose store folder is gone
RemovedVersion == "removed"

BackendEntries(name) ==
  {Absent, RealDir, Symlink(StorePath(name, RemovedVersion))}
    \cup {Symlink(StorePath(name, v)) : v \in Versions}

\* the sequences without repetition over S of length at most n (Object.keys
\* of a JSON object: each key once, in the order of the file)
DistinctSeqs(S, n) ==
  {s \in UNION {[1..k -> S] : k \in 0..n} :
     \A i, j \in 1..Len(s) : i # j => s[i] # s[j]}

Range(s) == {s[i] : i \in 1..Len(s)}

\* what PNPM installed for the dependencies keys deps of one temp package.json:
\* paths of names that are not keys hold nothing
InstallationsFor(deps) ==
  {[n \in AllNames |-> IF n \in Range(deps) THEN g[n] ELSE Absent] :
     g \in {h \in [Range(deps) -> UNION {BackendEntries(n) : n \in Range(deps)}] :
              \A n \in Range(deps) : h[n] \in BackendEntries(n)}}

\* the link paths under node_modules that may hold a real directory (left by
\* an install that did not go through the link manager) before the first run
MaxRealDirs == 1

RealDirCandidates ==
  {NodeModulesPath(ProjectFolderPath("a"), n) : n \in {"b", BinName}}

\* a rush-link.json file: absent, or the localLinks object it holds, as the
\* sequence of its keys with their values, in the order of the file
NoFile == [exists |-> FALSE, localLinks |-> <<>>]
JsonFileOf(localLinks) == [exists |-> TRUE, localLinks |-> localLinks]

\* a rush-link.json an earlier version of the repository can have left
OldRushLinkJson == << [key |-> "b", value |-> <<"a">>] >>

---------------------------------------------------------------------------
(* State *)

VARIABLES
  rushDependencies,   \* per project: Object.keys(packageJson.rushDependencies) of its temp package.json
  dependencies,       \* per project: Object.keys(packageJson.dependencies) of its temp package.json
  localInstallation,  \* per unscoped temp project name and dependency name: what is at
                      \* dependencyLocalInstallationSymlink
  commonBinExists,    \* fsx.existsSync(commonBinFolder)
  nodeModules,        \* per project and name: what is at <projectFolder>/node_modules/<name>
  rushLinkJsonFile,   \* the file rushLinkJsonFilename
  pc,                 \* where _linkProjects() is
  projIdx,            \* index of rushProject in projects
  depIdx,             \* index of dependencyName (or of the child) in the loop that runs
  rushLinkJson,       \* rushLinkJson.localLinks of the run
  children,           \* localPackage.children of the project being linked
  error,              \* the exception in flight, NoError when none
  result,             \* the promise _linkProjects() returned last
  runs,               \* number of calls of _linkProjects()
  atRunStart,         \* history: nodeModules and rushLinkJsonFile when the run began
  created,            \* history: the links _createSymlink created in this run, path and target
  saves,              \* history: number of JsonFile.save calls of this run
  lastRun,            \* history: outcome of the run that ended last
  prevRun,            \* history: outcome of the run before that
  linkCount,          \* history: per link path, how often _createSymlink created a link
                      \* at the path in this run
  changeFileData,     \* ChangeAction: the values of this._changeFileData, in insertion order
  changeFiles,        \* ChangeAction: per change file path, the content of the file
  changePc,           \* ChangeAction: where _writeChangeFiles() is
  prompts,            \* ChangeAction: the paths with an "Overwrite ?" prompt not answered yet
  answers,            \* ChangeAction: per path, the answer to its "Overwrite ?" prompt
  writeFileCalls,     \* ChangeAction: per path and caller, the _writeFile call and its promise
  writeChangeFilesPromise,  \* ChangeAction: the promise _writeChangeFiles() returned
  changeFilesAtStart, \* history: changeFiles when _writeChangeFiles() was called
  workers,            \* projects linked side by side: per project, where its linking is
  staging,            \* Nested: per (name, version), the staging copy of the backend and
                      \* the ordinary dependencies its manifest lists
  ordinary,           \* Nested: per project, its ordinary dependencies with resolved versions
  nestedLinks,        \* Nested: per link path, the target of the symlink at the path
  nestedTree,         \* Nested: the nodes below the root of the project being linked
  queue,              \* Nested: the nodes whose staging manifest is still to be followed
  materialized,       \* Nested: the lookup table of the (name, version) pairs of the tree
  npc,                \* Nested: where the linking is
  nproj,              \* Nested: index of the project being linked
  ndep,               \* Nested: index of the ordinary dependency of the project in turn
  nerror,             \* Nested: the error that ended the linking
  expansions,         \* history: per (name, version), how often the tree of the project
                      \* followed its staging manifest
  sortedProjectList,  \* ChangeAction: this._sortedProjectList
  asking,             \* ChangeAction: the package _askQuestions is asking about, "" when none
  collectedEmail,     \* ChangeAction: the email _detectOrAskForEmail resolved with
  asked,              \* history: per package, how often _askQuestions was called for it
  changedPackages,    \* history: the names _getChangedPackageNames() returned
  changelogFile,      \* ChangelogGenerator: the CHANGELOG.json of the project folder
  changelogMd,        \* ChangelogGenerator: the CHANGELOG.md of the project folder
  updates,            \* ChangelogGenerator: number of calls of updateIndividualChangelog
  lastUpdate,         \* history: the last call of updateIndividualChangelog, what it found
                      \* and what it returned
  finderProjects,     \* VersionMismatchFinder: this._projects
  mismatches,         \* VersionMismatchFinder: this._mismatches
  finderPc            \* VersionMismatchFinder: whether the constructor has run

config == <<rushDependencies, dependencies, localInstallation, commonBinExists>>
hist == <<atRunStart, created, saves, lastRun, prevRun, linkCount>>
linkVars == <<config, nodeModules, rushLinkJsonFile, pc, projIdx, depIdx, rushLinkJson,
              children, error, result, runs, hist>>
changeVars == <<changeFileData, changeFiles, changePc, prompts, answers, writeFileCalls,
                writeChangeFilesPromise, changeFilesAtStart>>
parallelVars == <<workers>>
nestedVars == <<staging, ordinary, nestedLinks, nestedTree, queue, materialized, npc, nproj, ndep,
                nerror, expansions>>
promptVars == <<sortedProjectList, asking, collectedEmail, asked, changedPackages>>
changelogVars == <<changelogFile, changelogMd, updates, lastUpdate>>
finderVars == <<finderProjects, mismatches, finderPc>>
\* the state of the commands that do not link
commandVars == <<promptVars, changelogVars, finderVars>>
\* the state a run of _linkProjects() leaves alone
others == <<changeVars, parallelVars, nestedVars, commandVars>>
\* the state _writeChangeFiles() leaves alone
exceptChange == <<linkVars, parallelVars, nestedVars, commandVars>>
\* the state the prompt loop of ChangeAction leaves alone
exceptPrompt == <<linkVars, parallelVars, nestedVars, changelogVars, finderVars>>
\* the state ChangelogGenerator leaves alone
exceptChangelog == <<linkVars, changeVars, parallelVars, nestedVars, promptVars, finderVars>>
\* the state VersionMismatchFinder leaves alone
exceptFinder == <<linkVars, changeVars, parallelVars, nestedVars, promptVars, changelogVars>>
vars == <<linkVars, changeVars, parallelVars, nestedVars, commandVars>>

---------------------------------------------------------------------------
(* ChangeAction: the change files *)

\* the packages the user can describe changes of
ChangePackages == {"a", "b"}

\* the value of a member that is undefined
Undefined == "undefined"

\* the emails _detectOrAskForEmail can resolve with
UserEmails == {"ann@example.com", "bob@example.com"}

\* an IChangeInfo: the answers of _askQuestions for a package
ChangeInfo(packageName, comment, type) ==
  [packageName |-> packageName, comment |-> comment, type |-> type]

\* changeFile = { changes: [], packageName: answers.packageName, email: undefined },
\* lines 216-220
NewChangeFile(packageName) ==
  [changes |-> <<>>, packageName |-> packageName, email |-> Undefined]

\* an IChangeFile: the package, the changes the user entered for it, the email
ChangeFileOf(packageName) ==
  [changes |-> <<ChangeInfo(packageName, "new", "patch")>>,
   packageName |-> packageName,
   email |-> "ann@example.com"]

\* new ChangeFile(changeFileData, rushConfiguration).generatePath(), line 446:
\* one path per package
generatePath(changeFile) ==
  [area |-> "common/changes", owner |-> changeFile.packageName, entry |-> ".json"]

ChangePaths == {generatePath(ChangeFileOf(p)) : p \in ChangePackages}

\* JSON.stringify(changeFileData, undefined, 2), line 444: the members of the
\* object, one after the other; a member that is undefined is left out
JSON_stringify(changeFile) ==
  <<"changes", changeFile.changes, "packageName", changeFile.packageName>>
    \o (IF changeFile.email = Undefined THEN <<>> ELSE <<"email", changeFile.email>>)

RegularFile(data) == [kind |-> "file", target |-> NoPath, data |-> data]

\* a change file an earlier run wrote at the path
OldChangeFile(path) ==
  RegularFile(JSON_stringify([changes |-> <<ChangeInfo(path.owner, "old", "patch")>>,
                              packageName |-> path.owner,
                              email |-> "old@example.com"]))

\* the callers of _writeFile in _writeChangeFile: line 465, and line 458 in
\* the handler of the answer
WriteFileCallers == {"direct", "answer"}

NotCalled == [stage |-> "none", promise |-> "none"]

\* _writeFile has not been called and no "Overwrite ?" prompt is open
NoWriteFileCalls ==
  /\ prompts = {}
  /\ answers = [path \in ChangePaths |-> "none"]
  /\ writeFileCalls = [k \in ChangePaths \X WriteFileCallers |-> NotCalled]
  /\ writeChangeFilesPromise = "none"

ChangeNotStarted ==
  /\ changePc = "start"
  /\ NoWriteFileCalls

\* no change file is described or on disk
NoChangeFiles ==
  /\ changeFileData = <<>>
  /\ changeFiles = [path \in ChangePaths |-> Absent]
  /\ changeFilesAtStart = changeFiles

\* rush change has not asked anything
PromptNotStarted ==
  /\ sortedProjectList = <<>>
  /\ asking = ""
  /\ collectedEmail = Undefined
  /\ asked = [p \in ChangePackages |-> 0]
  /\ changedPackages = <<>>

\* fs.existsSync(changelogFilename) is false: there is no text to read
NoText == <<>>

\* what updateIndividualChangelog returns when it returns undefined
UndefinedChangelog == [name |-> Undefined, entries |-> <<>>]

\* a change that asks for nothing
NoChange == [packageName |-> "", newVersion |-> Undefined, changes |-> <<>>]

NoUpdate ==
  [called |-> FALSE, change |-> NoChange, shouldCommit |-> FALSE,
   isLockstepped |-> FALSE, isMain |-> FALSE,
   fileBefore |-> NoText, mdBefore |-> NoText, returned |-> UndefinedChangelog]

\* no changelog is updated
ChangelogNotStarted ==
  /\ changelogFile = NoText
  /\ changelogMd = NoText
  /\ updates = 0
  /\ lastUpdate = NoUpdate

\* no VersionMismatchFinder is constructed
FinderNotStarted ==
  /\ finderProjects = <<>>
  /\ mismatches = <<>>
  /\ finderPc = "none"

CommandsNotStarted == PromptNotStarted /\ ChangelogNotStarted /\ FinderNotStarted

\* no project is linked side by side with another
WorkersNotStarted == workers = [p \in {} |-> "ready"]

\* an Error: the text of its message and the values the message interpolates
NoError == [text |-> "", dependencyName |-> "", packageName |-> "", path |-> NoPath]

\* a value for each project of the configuration
PerProject(va, vb, vc) == [p \in ProjectNames |-> CASE p = "a" -> va [] p = "b" -> vb [] OTHER -> vc]

\* no _createSymlink call has created a link
NoLinkCreated == [p \in ProjectNames |-> [n \in LinkNames |-> 0]]

NoRun ==
  [ended |-> FALSE, result |-> "none",
   nodeModules |-> [p \in ProjectNames |-> [n \in LinkNames |-> Absent]],
   rushLinkJsonFile |-> NoFile]

---------------------------------------------------------------------------
(* The Nested strategy, section 4.3 of the design: what the backend staged *)

SecondPartyName == "glob"

ThirdLevelName == "rimraf"

\* a dependency name with its resolved version
Key(name, version) == [name |-> name, version |-> version]

\* the (name, version) pairs a manifest can resolve to
StagedKeys ==
  {Key(n, v) : n \in {ThirdPartyName, SecondPartyName}, v \in Versions}
    \cup {Key(ThirdLevelName, "1.0.0")}

KeysOf(names) == {k \in StagedKeys : k.name \in names}

\* the ordinary dependencies of one manifest: each name once, with its
\* resolved version, at most n of them
KeySeqs(names, n) ==
  {s \in UNION {[1..k -> KeysOf(names)] : k \in 0..n} :
     \A i, j \in 1..Len(s) : i # j => s[i].name # s[j].name}

\* the names the manifest of a staging copy can list
StagedDependencyNames(name) ==
  CASE name = ThirdLevelName -> {SecondPartyName}
    [] name = SecondPartyName -> {ThirdPartyName}
    [] OTHER -> {}

\* the names the manifest of a project can list as ordinary dependencies
OrdinaryNames(p) ==
  CASE p = "a" -> {ThirdPartyName, SecondPartyName, ThirdLevelName}
    [] p = "b" -> {SecondPartyName}
    [] OTHER -> {}

\* one staging copy that two projects resolve a name to, whatever the version
StagingPathUnversioned(key) == [area |-> "staging", owner |-> key.name, entry |-> ""]

\* the folder of the backend-installed staging copy for (name, version)
StagingPath(key) == [area |-> "staging", owner |-> key.name, entry |-> key.version]

\* the entry for a dependency in the deps folder of a folder
DepsPath(folderPath, name) == [area |-> "deps", owner |-> folderPath, entry |-> name]

NestedFolders ==
  {projects[i].projectFolder : i \in 1..Len(projects)} \cup {StagingPath(k) : k \in StagedKeys}

NestedLinkPaths ==
  {DepsPath(f, n) : f \in NestedFolders,
                    n \in ProjectNames \cup {k.name : k \in StagedKeys}}

NoNestedError == [kind |-> "", project |-> "", dependency |-> ""]

NestedNotStarted ==
  /\ staging = [k \in StagedKeys |-> [present |-> FALSE, dependencies |-> <<>>]]
  /\ ordinary = PerProject(<<>>, <<>>, <<>>)
  /\ nestedLinks = [path \in NestedLinkPaths |-> NoPath]
  /\ nestedTree = <<>>
  /\ queue = <<>>
  /\ materialized = {}
  /\ npc = "idle"
  /\ nproj = 0
  /\ ndep = 0
  /\ nerror = NoNestedError
  /\ expansions = [k \in StagedKeys |-> 0]

Init ==
  /\ \E ra \in DistinctSeqs(InternalNames("a"), MaxRushDeps),
        rb \in DistinctSeqs(InternalNames("b"), MaxRushDeps),
        rc \in DistinctSeqs(InternalNames("c"), MaxRushDeps) :
        rushDependencies = PerProject(ra, rb, rc)
  /\ \E da \in DistinctSeqs(RegularNames("a"), MaxDeps),
        db \in DistinctSeqs(RegularNames("b"), MaxDeps),
        dc \in DistinctSeqs(RegularNames("c"), MaxDeps) :
        /\ dependencies = PerProject(da, db, dc)
        /\ \E ia \in InstallationsFor(da), ib \in InstallationsFor(db),
              ic \in InstallationsFor(dc) :
              localInstallation = PerProject(ia, ib, ic)
  /\ commonBinExists \in BOOLEAN
  /\ \E dirs \in SUBSET RealDirCandidates :
        /\ Cardinality(dirs) <= MaxRealDirs
        /\ nodeModules =
             [p \in ProjectNames |->
                [n \in LinkNames |->
                   IF NodeModulesPath(ProjectFolderPath(p), n) \in dirs THEN RealDir ELSE Absent]]
  /\ rushLinkJsonFile \in {NoFile, JsonFileOf(OldRushLinkJson)}
  /\ pc = "idle"
  /\ projIdx = 0
  /\ depIdx = 0
  /\ rushLinkJson = <<>>
  /\ children = <<>>
  /\ error = NoError
  /\ result = "none"
  /\ runs = 0
  /\ atRunStart = [nodeModules |-> nodeModules, rushLinkJsonFile |-> rushLinkJsonFile]
  /\ created = {}
  /\ saves = 0
  /\ lastRun = NoRun
  /\ prevRun = NoRun
  /\ linkCount = NoLinkCreated
  /\ changeFileData = <<>>
  /\ changeFiles = [path \in ChangePaths |-> Absent]
  /\ changeFilesAtStart = changeFiles
  /\ ChangeNotStarted
  /\ CommandsNotStarted
  /\ WorkersNotStarted
  /\ NestedNotStarted

---------------------------------------------------------------------------
(* Reading the file system *)

\* fsx.lstatSync(path): what is at the path itself
lstatSync(path) ==
  CASE path.area = "project/node_modules" -> nodeModules[path.owner][path.entry]
    [] path.area = "common/temp/node_modules/.local" -> localInstallation[path.owner][path.entry]
    [] path.area = "common/temp/node_modules" -> IF commonBinExists THEN RealDir ELSE Absent
    [] path.area = "store" -> IF path.entry \in Versions THEN RealDir ELSE Absent
    [] path.area = "projectFolder" -> RealDir
    [] path.area = "common/changes" -> changeFiles[path]
    [] OTHER -> Absent

\* fsx.readlinkSync(path): one symlink hop
readlinkSync(path) == lstatSync(path).target

\* fsx.existsSync(path): follows symlinks, false for a symlink whose target is gone
RECURSIVE existsSync(_)
existsSync(path) ==
  IF lstatSync(path).kind = "symlink"
  THEN existsSync(readlinkSync(path))
  ELSE lstatSync(path).kind # "absent"

---------------------------------------------------------------------------
(* _linkProjects() *)

\* a run that starts from the localLinks the run before left in memory
NewRushLinkJsonKept == rushLinkJson

\* a localLinks object that starts with an empty sequence for every project
NewRushLinkJsonAllKeys ==
  [i \in 1..Len(projects) |-> [key |-> projects[i].packageName, value |-> <<>>]]

\* a run that starts from the localLinks of the rush-link.json it finds
NewRushLinkJsonFromFile == rushLinkJsonFile.localLinks

\* const rushLinkJson: IRushLinkJson = { localLinks: {} }
NewRushLinkJson == <<>>

\* rushLinkJson.localLinks[name]: the value of the key, <<>> when undefined
LocalLinksOf(localLinks, name) ==
  LET hits == SelectSeq(localLinks, LAMBDA e : e.key = name)
  IN IF hits = <<>> THEN <<>> ELSE hits[1].value

HasKey(localLinks, name) == \E i \in 1..Len(localLinks) : localLinks[i].key = name

\* the name is put in front of the sequence (unshift)
PushLocalLinkFront(localLinks, name, dependencyName) ==
  IF HasKey(localLinks, name)
  THEN [i \in 1..Len(localLinks) |->
          IF localLinks[i].key = name
          THEN [localLinks[i] EXCEPT !.value = <<dependencyName>> \o @]
          ELSE localLinks[i]]
  ELSE Append(localLinks, [key |-> name, value |-> <<dependencyName>>])

\* localLinks = rushLinkJson.localLinks[name]; if (!localLinks) { ... = [] };
\* localLinks.push(dependencyName)
PushLocalLink(localLinks, name, dependencyName) ==
  IF HasKey(localLinks, name)
  THEN [i \in 1..Len(localLinks) |->
          IF localLinks[i].key = name
          THEN [localLinks[i] EXCEPT !.value = Append(@, dependencyName)]
          ELSE localLinks[i]]
  ELSE Append(localLinks, [key |-> name, value |-> <<dependencyName>>])

\* a linked package that is given, as in a nested tree, a child of its own
\* for a dependency below its folder
LinkedPackageWithChild(name, folderPath, symlinkTargetFolderPath) ==
  [name |-> name, folderPath |-> folderPath,
   symlinkTargetFolderPath |-> symlinkTargetFolderPath,
   children |-> << [name |-> ThirdPartyName, folderPath |-> NoPath,
                    symlinkTargetFolderPath |-> NoPath, children |-> <<>>] >>]

\* BasePackage.createLinkedPackage(name, version, folderPath) with its
\* symlinkTargetFolderPath set; nothing is added to the children of the
\* package after that
LinkedPackage(name, folderPath, symlinkTargetFolderPath) ==
  [name |-> name, folderPath |-> folderPath,
   symlinkTargetFolderPath |-> symlinkTargetFolderPath,
   children |-> <<>>]

\* path.join(commonTempFolder, 'node_modules', '@rush-temp', unscopedTempProjectName),
\* lines 67-68
installFolderName(project) ==
  [area |-> "common/temp/node_modules/@rush-temp",
   owner |-> unscopedTempProjectName(project), entry |-> ""]

\* a root that sits, as commonPackage does, in the folder PNPM installed the
\* temp project in
LocalPackageInstalled(project) ==
  LinkedPackage(project.packageName, installFolderName(project), NoPath)

\* localPackage, lines 72-76: the root of the tree of the project, in the
\* folder of the project; its symlinkTargetFolderPath is never set
LocalPackage(project) ==
  LinkedPackage(project.packageName, project.projectFolder, NoPath)

\* a link for a rush dependency that points at what PNPM installed for the
\* matched project instead of at its folder
RushDependencyTargetInstalled(matchedRushPackage) ==
  dependencyLocalInstallationSymlink(matchedRushPackage, matchedRushPackage.packageName)

\* the target of the link for a rush dependency: matchedRushPackage.projectFolder
RushDependencyTarget(matchedRushPackage) == matchedRushPackage.projectFolder

\* a link for a regular dependency that follows PNPM's symlink and points at
\* the folder of the store
DependencyTargetRealpath(project, dependencyName) ==
  readlinkSync(dependencyLocalInstallationSymlink(project, dependencyName))

\* the target of the link for a regular dependency: dependencyLocalInstallationSymlink
DependencyTarget(project, dependencyName) ==
  dependencyLocalInstallationSymlink(project, dependencyName)

\* the message of the missing installation thrown for a rush dependency
CannotFindDependencyWrongMessage(dependencyName, project) ==
  [text |-> "Cannot find installed dependency",
   dependencyName |-> dependencyName,
   packageName |-> "",
   path |-> NoPath]

\* Error(`Cannot find dependency "${dependencyName}" for "${project.packageName}"
\* in rush configuration`)
CannotFindDependency(dependencyName, project) ==
  [text |-> "Cannot find dependency",
   dependencyName |-> dependencyName,
   packageName |-> project.packageName,
   path |-> NoPath]

\* a message that names the dependency and no folder
CannotFindInstalledDependencyNoPath(dependencyName, project) ==
  [text |-> "Cannot find installed dependency",
   dependencyName |-> dependencyName,
   packageName |-> "",
   path |-> NoPath]

\* Error(`Cannot find installed dependency "${dependencyName}" in
\* "${pathToLocalInstallation}"`)
CannotFindInstalledDependency(dependencyName, project) ==
  [text |-> "Cannot find installed dependency",
   dependencyName |-> dependencyName,
   packageName |-> "",
   path |-> pathToLocalInstallation(project)]

\* Error(`Dependency "${dependencyName}" is not a symlink in
\* "${pathToLocalInstallation}`)
DependencyIsNotASymlink(dependencyName, project) ==
  [text |-> "Dependency is not a symlink",
   dependencyName |-> dependencyName,
   packageName |-> "",
   path |-> pathToLocalInstallation(project)]

\* the error of BasePackage.addChild for a name the parent already has
ChildAlreadyExists(parentName, childName) ==
  [text |-> "Child already exists",
   dependencyName |-> childName,
   packageName |-> parentName,
   path |-> NoPath]

\* a test that a plain directory passes too (statSync, which follows links,
\* with isDirectory())
isSymbolicLinkOrDirectory(stats) == stats.kind \in {"symlink", "dir"}

\* fsx.lstatSync(path).isSymbolicLink()
isSymbolicLink(stats) == stats.kind = "symlink"

\* an exception that is swallowed: the run goes on to save the manifest
OnThrowSwallowed == "save"

\* where control goes when a statement of the try block throws
OnThrow == "catch"

\* a catch block that resolves
PromiseAfterCatchResolved == "resolved"

\* return Promise.reject(error)
PromiseAfterCatch == "rejected"

\* a _linkProject() that goes on to the ".bin" link without creating the
\* links of the children
AfterDependenciesSkipLinks(ch) == "bin"

\* the first loop of _linkProject() that has an iteration to run for the
\* project, given its children so far
AfterDependencies(ch) == IF Len(ch) > 0 THEN "symlinks" ELSE "bin"

AfterRushDependencies(name, ch) ==
  IF Len(dependencies[name]) > 0 THEN "dependencies" ELSE AfterDependencies(ch)

EnterProject(name) ==
  IF Len(rushDependencies[name]) > 0
  THEN "rushDependencies"
  ELSE AfterRushDependencies(name, <<>>)

\* a loop that has the save in its body: the save follows the first project
AfterProjectSaveInLoop(i) ==
  IF i = 0
  THEN [pc |-> EnterProject(projects[1].packageName), projIdx |-> 1]
  ELSE [pc |-> "save", projIdx |-> i]

\* the for loop of _linkProjects(): the next project, or the save after the last
AfterProject(i) ==
  IF i < Len(projects)
  THEN [pc |-> EnterProject(projects[i + 1].packageName), projIdx |-> i + 1]
  ELSE [pc |-> "save", projIdx |-> i]

RunOutcome(res, file) ==
  [ended |-> TRUE, result |-> res, nodeModules |-> nodeModules, rushLinkJsonFile |-> file]

\* _linkProjects() is called: lines 27-33 up to the first loop of _linkProject()
LinkProjectsBegin ==
  /\ pc = "idle"
  /\ runs < MaxRuns
  /\ runs' = runs + 1
  /\ rushLinkJson' = NewRushLinkJson
  /\ error' = NoError
  /\ result' = "pending"
  /\ children' = <<>>
  /\ depIdx' = 1
  /\ LET next == AfterProject(0) IN pc' = next.pc /\ projIdx' = next.projIdx
  /\ atRunStart' = [nodeModules |-> nodeModules, rushLinkJsonFile |-> rushLinkJsonFile]
  /\ created' = {}
  /\ linkCount' = NoLinkCreated
  /\ saves' = 0
  /\ UNCHANGED <<others, config, nodeModules, rushLinkJsonFile, lastRun, prevRun>>

\* an exception that is caught inside the for loop: the error is kept and the
\* loop goes on with the project that follows
ThrowAndGoOn(e) ==
  /\ error' = e
  /\ pc' = AfterProject(projIdx).pc
  /\ projIdx' = AfterProject(projIdx).projIdx
  /\ depIdx' = 1
  /\ children' = <<>>
  /\ UNCHANGED rushLinkJson

\* a statement of _linkProject() throws e
Throw(e) ==
  /\ error' = e
  /\ pc' = OnThrow
  /\ UNCHANGED <<projIdx, depIdx, rushLinkJson, children>>

\* a push that creates the link of the child at once, before the keys that
\* follow are looked at
AfterPushLinked(nm, child) ==
  [nm EXCEPT ![child.folderPath.owner][child.folderPath.entry] =
     Symlink(child.symlinkTargetFolderPath)]

\* localPackage.children.push(newLocalPackage), line 108, and
\* localPackage.addChild(newLocalPackage), line 189: the tree gets a node and
\* no file is touched
AfterPush(nm, child) == nm

\* one iteration of the loop over rushDependencies, lines 81-113
RushDependencyStep ==
  /\ pc = "rushDependencies"
  /\ LET project == projects[projIdx]
         localPackage == LocalPackage(project)
         keys == rushDependencies[project.packageName]
         dependencyName == keys[depIdx]
         matchedRushPackage == getProjectByName(dependencyName)
         newLocalPackage ==
           LinkedPackage(dependencyName,
                         NodeModulesPath(localPackage.folderPath, dependencyName),
                         RushDependencyTarget(matchedRushPackage[1]))
     IN IF matchedRushPackage # <<>>
        THEN /\ rushLinkJson' = PushLocalLink(rushLinkJson, localPackage.name, dependencyName)
             /\ children' = Append(children, newLocalPackage)
             /\ nodeModules' = AfterPush(nodeModules, newLocalPackage)
             /\ IF depIdx < Len(keys)
                THEN depIdx' = depIdx + 1 /\ pc' = pc
                ELSE depIdx' = 1 /\ pc' = AfterRushDependencies(localPackage.name, children')
             /\ UNCHANGED <<projIdx, error>>
        ELSE /\ Throw(CannotFindDependency(dependencyName, project))
             /\ UNCHANGED nodeModules
  /\ UNCHANGED <<others, config, rushLinkJsonFile, result, runs, hist>>

\* an addChild that appends without looking at the names it holds
addChildUnchecked(ch, child) == Append(ch, child)

\* BasePackage.addChild(child): the children of the package with the child
\* appended; a child of the same name is refused (the result is <<>>)
addChild(ch, child) ==
  IF \E i \in 1..Len(ch) : ch[i].name = child.name
  THEN <<>>
  ELSE Append(ch, child)

\* one iteration of the loop over dependencies, lines 149-190
DependencyStep ==
  /\ pc = "dependencies"
  /\ LET project == projects[projIdx]
         localPackage == LocalPackage(project)
         keys == dependencies[project.packageName]
         dependencyName == keys[depIdx]
         symlink == dependencyLocalInstallationSymlink(project, dependencyName)
         newLocalPackage ==
           LinkedPackage(dependencyName,
                         NodeModulesPath(localPackage.folderPath, dependencyName),
                         DependencyTarget(project, dependencyName))
     IN IF ~existsSync(symlink)
        THEN Throw(CannotFindInstalledDependency(dependencyName, project)) /\ UNCHANGED nodeModules
        ELSE IF ~isSymbolicLink(lstatSync(symlink))
        THEN Throw(DependencyIsNotASymlink(dependencyName, project)) /\ UNCHANGED nodeModules
        ELSE IF addChild(children, newLocalPackage) = <<>>
        THEN Throw(ChildAlreadyExists(localPackage.name, dependencyName)) /\ UNCHANGED nodeModules
        ELSE /\ children' = addChild(children, newLocalPackage)
             /\ nodeModules' = AfterPush(nodeModules, newLocalPackage)
             /\ IF depIdx < Len(keys)
                THEN depIdx' = depIdx + 1 /\ pc' = pc
                ELSE depIdx' = 1 /\ pc' = AfterDependencies(children')
             /\ UNCHANGED <<projIdx, rushLinkJson, error>>
  /\ UNCHANGED <<others, config, rushLinkJsonFile, result, runs, hist>>

\* a _createSymlink that removes whatever is at linkSource
CanCreateSymlinkAlways(linkSource) == TRUE

\* BaseLinkManager._createSymlink(linkTarget, linkSource, kind): a real
\* directory at linkSource is a conflict and nothing is removed; anything else
\* at linkSource is removed and the link is created
CanCreateSymlink(linkSource) == lstatSync(linkSource).kind # "dir"

\* one more link created at linkSource
Counted(count, linkSource) ==
  [count EXCEPT ![linkSource.owner][linkSource.entry] = @ + 1]

AfterCreateSymlink(nm, linkTarget, linkSource) ==
  [nm EXCEPT ![linkSource.owner][linkSource.entry] = Symlink(linkTarget)]

ConflictError(linkSource) ==
  [text |-> "Link path holds a real directory",
   dependencyName |-> linkSource.entry,
   packageName |-> linkSource.owner,
   path |-> linkSource]

\* BaseLinkManager._createSymlinksForTopLevelProject(localPackage), line 196:
\* the link of one child
CreateSymlinkStep ==
  /\ pc = "symlinks"
  /\ LET child == children[depIdx]
     IN IF CanCreateSymlink(child.folderPath)
        THEN /\ nodeModules' =
                  AfterCreateSymlink(nodeModules, child.symlinkTargetFolderPath, child.folderPath)
             /\ created' = created \cup {[path |-> child.folderPath,
                                            target |-> child.symlinkTargetFolderPath]}
             /\ linkCount' = Counted(linkCount, child.folderPath)
             /\ IF depIdx < Len(children)
                THEN depIdx' = depIdx + 1 /\ pc' = pc
                ELSE depIdx' = 1 /\ pc' = "bin"
             /\ UNCHANGED <<projIdx, rushLinkJson, children, error>>
        ELSE /\ Throw(ConflictError(child.folderPath))
             /\ UNCHANGED <<nodeModules, created, linkCount>>
  /\ UNCHANGED <<others, config, rushLinkJsonFile, result, runs, atRunStart, saves, lastRun, prevRun>>

\* a ".bin" link that is made only for a project that has a child to link
LinksBinFolderWithChildren == existsSync(commonBinFolder) /\ Len(children) > 0

\* if (fsx.existsSync(commonBinFolder)), line 202
LinksBinFolder == existsSync(commonBinFolder)

\* the ".bin" link, lines 198-204, and the step of the for loop of _linkProjects()
BinStep ==
  /\ pc = "bin"
  /\ LET project == projects[projIdx]
         projectBinFolder == NodeModulesPath(LocalPackage(project).folderPath, BinName)
         next == AfterProject(projIdx)
     IN IF LinksBinFolder /\ ~CanCreateSymlink(projectBinFolder)
        THEN /\ Throw(ConflictError(projectBinFolder))
             /\ UNCHANGED <<nodeModules, created, linkCount>>
        ELSE /\ IF LinksBinFolder
                THEN /\ nodeModules' =
                          AfterCreateSymlink(nodeModules, commonBinFolder, projectBinFolder)
                     /\ created' = created \cup {[path |-> projectBinFolder,
                                                    target |-> commonBinFolder]}
                     /\ linkCount' = Counted(linkCount, projectBinFolder)
                ELSE UNCHANGED <<nodeModules, created, linkCount>>
             /\ pc' = next.pc
             /\ projIdx' = next.projIdx
             /\ children' = <<>>
             /\ depIdx' = 1
             /\ UNCHANGED <<rushLinkJson, error>>
  /\ UNCHANGED <<others, config, rushLinkJsonFile, result, runs, atRunStart, saves, lastRun, prevRun>>

\* JsonFile.save(jsonObject, jsonFilename): the file holds the serialized object
JsonFile_save(jsonObject) == JsonFileOf(jsonObject)

\* lines 36-39: the manifest is saved and the promise resolves
SaveRushLinkJson ==
  /\ pc = "save"
  /\ rushLinkJsonFile' = JsonFile_save(rushLinkJson)
  /\ saves' = saves + 1
  /\ result' = "resolved"
  /\ pc' = "idle"
  /\ lastRun' = RunOutcome("resolved", rushLinkJsonFile')
  /\ prevRun' = lastRun
  /\ UNCHANGED <<others, config, nodeModules, projIdx, depIdx, rushLinkJson, children, error,
                 runs, atRunStart, created, linkCount>>

\* lines 40-42: the exception becomes a rejected promise
Catch ==
  /\ pc = "catch"
  /\ result' = PromiseAfterCatch
  /\ pc' = "idle"
  /\ lastRun' = RunOutcome(PromiseAfterCatch, rushLinkJsonFile)
  /\ prevRun' = lastRun
  /\ UNCHANGED <<others, config, nodeModules, rushLinkJsonFile, projIdx, depIdx, rushLinkJson,
                 children, error, runs, atRunStart, created, saves, linkCount>>

Next ==
  \/ LinkProjectsBegin
  \/ RushDependencyStep
  \/ DependencyStep
  \/ CreateSymlinkStep
  \/ BinStep
  \/ SaveRushLinkJson
  \/ Catch

Spec == Init /\ [][Next]_vars

---------------------------------------------------------------------------
(* ChangeAction._writeChangeFiles() *)

\* the link manager does not run
LinkingNotStarted ==
  /\ rushDependencies = PerProject(<<>>, <<>>, <<>>)
  /\ dependencies = PerProject(<<>>, <<>>, <<>>)
  /\ localInstallation = [p \in ProjectNames |-> [n \in AllNames |-> Absent]]
  /\ commonBinExists = FALSE
  /\ nodeModules = NoRun.nodeModules
  /\ rushLinkJsonFile = NoFile
  /\ pc = "idle"
  /\ projIdx = 0
  /\ depIdx = 0
  /\ rushLinkJson = <<>>
  /\ children = <<>>
  /\ error = NoError
  /\ result = "none"
  /\ runs = 0
  /\ atRunStart = [nodeModules |-> nodeModules, rushLinkJsonFile |-> rushLinkJsonFile]
  /\ created = {}
  /\ saves = 0
  /\ lastRun = NoRun
  /\ prevRun = NoRun
  /\ linkCount = NoLinkCreated

ChangeInit ==
  /\ LinkingNotStarted
  /\ \E names \in DistinctSeqs(ChangePackages, MaxChangeFiles) :
        changeFileData = [i \in 1..Len(names) |-> ChangeFileOf(names[i])]
  /\ \E existing \in SUBSET ChangePaths :
        changeFiles = [path \in ChangePaths |->
                         IF path \in existing THEN OldChangeFile(path) ELSE Absent]
  /\ changeFilesAtStart = changeFiles
  /\ ChangeNotStarted
  /\ CommandsNotStarted
  /\ WorkersNotStarted
  /\ NestedNotStarted

\* the paths of the change files of the values of a _changeFileData
DataPathsOf(data) == {generatePath(data[i]) : i \in 1..Len(data)}

\* the paths of the change files of this._changeFileData
DataPaths == DataPathsOf(changeFileData)

\* the output _writeChangeFile computes for the change file of the path
OutputFor(path) ==
  JSON_stringify(CHOOSE cf \in Range(changeFileData) : generatePath(cf) = path)

\* _writeChangeFile, lines 448-465: the paths for which line 465 calls
\* _writeFile when the function is called; the promise of the prompt of line
\* 450 is not returned, so line 465 is reached for every path
DirectCalls(paths) == paths

\* _writeChangeFiles(), lines 427-432, with the synchronous part of every
\* _writeChangeFile() it calls, lines 443-465
WriteChangeFilesOf(data) ==
  /\ changePc' = "writing"
  /\ changeFilesAtStart' = changeFiles
  /\ prompts' = {path \in DataPathsOf(data) : existsSync(path)}
  /\ writeFileCalls' =
       [k \in DOMAIN writeFileCalls |->
          IF k[2] = "direct" /\ k[1] \in DirectCalls(DataPathsOf(data))
          THEN [stage |-> "mkdirs", promise |-> "pending"]
          ELSE writeFileCalls[k]]
  /\ writeChangeFilesPromise' = "pending"
  /\ UNCHANGED <<changeFiles, answers>>

\* _writeChangeFiles() is called with the change files of this._changeFileData
WriteChangeFiles ==
  /\ changePc = "start"
  /\ WriteChangeFilesOf(changeFileData)
  /\ UNCHANGED <<exceptChange, changeFileData>>

\* reject(e) of a promise: a settled promise stays as it is
Reject(promise) == IF promise = "pending" THEN "rejected" ELSE promise

Resolve(promise) == IF promise = "pending" THEN "resolved" ELSE promise

\* the callback of fsx.mkdirs in _writeFile, lines 474-478: an error rejects
\* the promise, and fsx.writeFile is called in both cases
MkdirsCallback(k, err) ==
  /\ writeFileCalls[k].stage = "mkdirs"
  /\ writeFileCalls' =
       [writeFileCalls EXCEPT ![k] =
          [stage |-> "writeFile", promise |-> IF err THEN Reject(@.promise) ELSE @.promise]]
  /\ UNCHANGED <<exceptChange, changeFileData, changeFiles, changePc, prompts, answers,
                 writeChangeFilesPromise, changeFilesAtStart>>

\* the callback of fsx.writeFile in _writeFile, lines 478-485: without an
\* error the file holds the output
WriteFileCallback(k, err) ==
  /\ writeFileCalls[k].stage = "writeFile"
  /\ writeFileCalls' =
       [writeFileCalls EXCEPT ![k] =
          [stage |-> "done",
           promise |-> IF err THEN Reject(@.promise) ELSE Resolve(@.promise)]]
  /\ changeFiles' = IF err THEN changeFiles
                    ELSE [changeFiles EXCEPT ![k[1]] = RegularFile(OutputFor(k[1]))]
  /\ UNCHANGED <<exceptChange, changeFileData, changePc, prompts, answers,
                 writeChangeFilesPromise, changeFilesAtStart>>

\* the user answers the prompt of line 450: the handler of lines 456-463
PromptAnswered(path, overwrite) ==
  /\ path \in prompts
  /\ prompts' = prompts \ {path}
  /\ answers' = [answers EXCEPT ![path] = IF overwrite THEN "yes" ELSE "no"]
  /\ writeFileCalls' =
       IF overwrite
       THEN [writeFileCalls EXCEPT ![<<path, "answer">>] =
               [stage |-> "mkdirs", promise |-> "pending"]]
       ELSE writeFileCalls
  /\ UNCHANGED <<exceptChange, changeFileData, changeFiles, changePc,
                 writeChangeFilesPromise, changeFilesAtStart>>

\* the promises _writeChangeFile returned to _writeChangeFiles
ReturnedPromises == {writeFileCalls[<<path, "direct">>].promise : path \in DataPaths}

\* Promise.all(promises) settles, lines 433-440
PromiseAllSettles ==
  /\ changePc = "writing"
  /\ \/ "rejected" \in ReturnedPromises /\ writeChangeFilesPromise' = "rejected"
     \/ ReturnedPromises \subseteq {"resolved"} /\ writeChangeFilesPromise' = "resolved"
  /\ changePc' = "done"
  /\ UNCHANGED <<exceptChange, changeFileData, changeFiles, prompts, answers, writeFileCalls,
                 changeFilesAtStart>>

ChangeNext ==
  \/ WriteChangeFiles
  \/ \E k \in ChangePaths \X WriteFileCallers, err \in BOOLEAN : MkdirsCallback(k, err)
  \/ \E k \in ChangePaths \X WriteFileCallers, err \in BOOLEAN : WriteFileCallback(k, err)
  \/ \E path \in ChangePaths, overwrite \in BOOLEAN : PromptAnswered(path, overwrite)
  \/ PromiseAllSettles

ChangeSpec == ChangeInit /\ [][ChangeNext]_vars

---------------------------------------------------------------------------
(* ChangeAction.run() and _promptLoop() *)

\* Array.prototype.sort() of package names: the names in the order of their
\* code units
NameOrder(name) == CASE name = "a" -> 1 [] name = "b" -> 2 [] OTHER -> 3

RECURSIVE sort(_)
sort(names) ==
  IF names = <<>>
  THEN <<>>
  ELSE LET least == CHOOSE n \in Range(names) :
                      \A m \in Range(names) : NameOrder(n) <= NameOrder(m)
       IN <<least>> \o sort(SelectSeq(names, LAMBDA n : n # least))

PromptInit ==
  /\ LinkingNotStarted
  /\ changedPackages \in DistinctSeqs(ChangePackages, MaxChangeFiles)
  /\ sortedProjectList = <<>>
  /\ asking = ""
  /\ collectedEmail = Undefined
  /\ asked = [p \in ChangePackages |-> 0]
  /\ changeFileData = <<>>
  /\ \E existing \in SUBSET ChangePaths :
        changeFiles = [path \in ChangePaths |->
                         IF path \in existing THEN OldChangeFile(path) ELSE Absent]
  /\ changeFilesAtStart = changeFiles
  /\ changePc = "run"
  /\ NoWriteFileCalls
  /\ ChangelogNotStarted
  /\ FinderNotStarted
  /\ WorkersNotStarted
  /\ NestedNotStarted

\* a loop that stops asking while one project is left in the list
promptLoopStopsEarly(list) ==
  IF Len(list) > 1
  THEN [pc |-> "asking", asking |-> list[Len(list)], list |-> SubSeq(list, 1, Len(list) - 1)]
  ELSE [pc |-> "email", asking |-> "", list |-> list]

\* _promptLoop(), lines 209-210 and 229-232: with a project in the list, the
\* last one is popped and _askQuestions is called for it; with none,
\* _detectOrAskForEmail is called
promptLoop(list) ==
  IF Len(list) > 0
  THEN [pc |-> "asking", asking |-> list[Len(list)], list |-> SubSeq(list, 1, Len(list) - 1)]
  ELSE [pc |-> "email", asking |-> "", list |-> list]

\* the state after a call of _promptLoop() with the list
AfterPromptLoop(list) ==
  LET next == promptLoop(list)
  IN /\ changePc' = next.pc
     /\ asking' = next.asking
     /\ sortedProjectList' = next.list
     /\ asked' = IF next.pc = "asking" THEN [asked EXCEPT ![next.asking] = @ + 1] ELSE asked

\* run(), lines 97-122: without a changed package nothing is asked; with one,
\* the prompt loop starts
RunChange ==
  /\ changePc = "run"
  /\ IF Len(sort(changedPackages)) = 0
     THEN /\ changePc' = "nothing"
          /\ sortedProjectList' = sort(changedPackages)
          /\ UNCHANGED <<asking, asked>>
     ELSE AfterPromptLoop(sort(changedPackages))
  /\ changeFileData' = <<>>
  /\ UNCHANGED <<exceptPrompt, collectedEmail, changedPackages, changeFiles, prompts, answers,
                 writeFileCalls, writeChangeFilesPromise, changeFilesAtStart>>

\* what _askQuestions can resolve with for a package, lines 244-315: undefined
\* (the user skips), a change without comment, a change with comment and type
NoChangeInfo == ChangeInfo("", "", Undefined)

AnswersFor(packageName) ==
  {NoChangeInfo, ChangeInfo(packageName, "", "none"), ChangeInfo(packageName, "fix", "patch")}

\* this._changeFileData.get(packageName) with the set of lines 214-222, and
\* changeFile.changes.push(answers), line 223
PushAnswers(data, info) ==
  LET had == \E i \in 1..Len(data) : data[i].packageName = info.packageName
      with == IF had THEN data ELSE Append(data, NewChangeFile(info.packageName))
  IN [i \in 1..Len(with) |->
        IF with[i].packageName = info.packageName
        THEN [with[i] EXCEPT !.changes = Append(@, info)]
        ELSE with[i]]

\* the promise of _askQuestions resolves: the handler of lines 211-227
AskAnswered(info) ==
  /\ changePc = "asking"
  /\ info \in AnswersFor(asking)
  /\ changeFileData' = IF info # NoChangeInfo THEN PushAnswers(changeFileData, info)
                       ELSE changeFileData
  /\ AfterPromptLoop(sortedProjectList)
  /\ UNCHANGED <<exceptPrompt, collectedEmail, changedPackages, changeFiles, prompts, answers,
                 writeFileCalls, writeChangeFilesPromise, changeFilesAtStart>>

\* the promise of _detectOrAskForEmail resolves: the handler of lines 232-237,
\* with the _writeChangeFiles() it calls
EmailCollected(email) ==
  /\ changePc = "email"
  /\ collectedEmail' = email
  /\ changeFileData' = [i \in 1..Len(changeFileData) |->
                          [changeFileData[i] EXCEPT !.email = email]]
  /\ WriteChangeFilesOf(changeFileData')
  /\ UNCHANGED <<exceptPrompt, sortedProjectList, asking, asked, changedPackages>>

PromptNext ==
  \/ RunChange
  \/ \E p \in ChangePackages : \E info \in AnswersFor(p) : AskAnswered(info)
  \/ \E email \in UserEmails : EmailCollected(email)
  \/ \E k \in ChangePaths \X WriteFileCallers, err \in BOOLEAN : MkdirsCallback(k, err)
  \/ \E k \in ChangePaths \X WriteFileCallers, err \in BOOLEAN : WriteFileCallback(k, err)
  \/ \E path \in ChangePaths, overwrite \in BOOLEAN : PromptAnswered(path, overwrite)
  \/ PromiseAllSettles

\* every prompt that is open is answered, and every callback is called
PromptSpec == PromptInit /\ [][PromptNext]_vars /\ WF_vars(PromptNext)

---------------------------------------------------------------------------
(* Properties *)

RunEnded == pc = "idle" /\ runs > 0

Succeeded == RunEnded /\ result = "resolved"

Failed == RunEnded /\ result = "rejected"

FolderOf(name) == getProjectByName(name)[1].projectFolder

\* what is at <folder of p>/node_modules/<n>
LinkAt(p, n) == lstatSync(NodeModulesPath(FolderOf(p), n))

\* C1: after a run that resolves, for every project P and every key D of the
\* rushDependencies of its temp package.json, P/node_modules/D is a symlink to
\* the project folder of the project named D, and D is in the sequence the
\* saved rush-link.json holds for P.
C1_RushDependencyLinks ==
  Succeeded =>
    \A p \in ProjectNames : \A i \in 1..Len(rushDependencies[p]) :
       LET d == rushDependencies[p][i]
       IN /\ getProjectByName(d) # <<>>
          /\ LinkAt(p, d) = Symlink(FolderOf(d))
          /\ rushLinkJsonFile.exists
          /\ d \in Range(LocalLinksOf(rushLinkJsonFile.localLinks, p))

C1_Witness ==
  /\ Succeeded
  /\ Len(rushDependencies["a"]) = 2
  /\ Len(rushDependencies["b"]) = 1
  /\ LinkAt("a", "c") = Symlink(FolderOf("c"))

\* C2: once a statement of a run has thrown, rush-link.json is the file the
\* run found when it began (or still absent) and JsonFile.save has not been
\* called in the run, whatever localLinks the run holds in memory.
C2_NoSaveAfterThrow ==
  error # NoError =>
    /\ saves = 0
    /\ rushLinkJsonFile = atRunStart.rushLinkJsonFile

C2_Witness ==
  /\ Failed
  /\ rushLinkJson # <<>>
  /\ rushLinkJsonFile = JsonFileOf(OldRushLinkJson)

\* the regular dependencies two projects share at one resolved version: PNPM
\* made the symlinks of both projects for the name point at the same folder of
\* the store
SharedDependencies(p, q) ==
  {d \in Range(dependencies[p]) \cap Range(dependencies[q]) :
     /\ localInstallation[p][d].kind = "symlink"
     /\ localInstallation[p][d] = localInstallation[q][d]}

\* C3 as stated: after a run that resolves, the links P/node_modules/D and
\* Q/node_modules/D of two projects that share D at one version lead, after
\* one symlink hop each, to the same location, and that location is a real
\* folder.
C3_OneHopSameLocation ==
  Succeeded =>
    \A p, q \in ProjectNames : \A d \in SharedDependencies(p, q) :
       p # q =>
         /\ readlinkSync(NodeModulesPath(FolderOf(p), d))
              = readlinkSync(NodeModulesPath(FolderOf(q), d))
         /\ lstatSync(readlinkSync(NodeModulesPath(FolderOf(p), d))).kind = "dir"

\* C3, amended: the first hop of P/node_modules/D ends at the symlink PNPM
\* created for D in the local installation of P's own temp project, and the
\* second hop ends at the folder of the store, which is the same for the two
\* projects.
C3_TwoHopsSameLocation ==
  Succeeded =>
    \A p, q \in ProjectNames : \A d \in SharedDependencies(p, q) :
       LET viaP == readlinkSync(NodeModulesPath(FolderOf(p), d))
           viaQ == readlinkSync(NodeModulesPath(FolderOf(q), d))
       IN /\ viaP = dependencyLocalInstallationSymlink(getProjectByName(p)[1], d)
          /\ lstatSync(viaP).kind = "symlink"
          /\ readlinkSync(viaP) = readlinkSync(viaQ)
          /\ lstatSync(readlinkSync(viaP)).kind = "dir"

C3_Witness ==
  /\ Succeeded
  /\ ThirdPartyName \in SharedDependencies("a", "b")
  /\ LinkAt("a", ThirdPartyName).kind = "symlink"
  /\ LinkAt("b", ThirdPartyName).kind = "symlink"

\* C4: a run that follows another run, with the temp package.json files and
\* PNPM's installation unchanged, ends with the same content of every
\* node_modules folder, the same rush-link.json and the same outcome as the
\* run before it.
C4_Idempotent ==
  (RunEnded /\ prevRun.ended) =>
    /\ lastRun.nodeModules = prevRun.nodeModules
    /\ lastRun.rushLinkJsonFile = prevRun.rushLinkJsonFile
    /\ lastRun.result = prevRun.result

C4_Witness ==
  /\ Succeeded
  /\ prevRun.ended
  /\ prevRun.result = "resolved"
  /\ rushLinkJson # <<>>
  /\ created # {}

IndexOf(name) == CHOOSE i \in 1..Len(projects) : projects[i].packageName = name

\* the keys of rushDependencies of p that match no project, by position
UnmatchedKeys(p) ==
  {i \in 1..Len(rushDependencies[p]) : getProjectByName(rushDependencies[p][i]) = <<>>}

FirstUnmatched(p) ==
  rushDependencies[p][CHOOSE i \in UnmatchedKeys(p) : \A j \in UnmatchedKeys(p) : i <= j]

\* C5: when the temp package.json of a project P lists under rushDependencies
\* a name that matches no project, no run resolves and no run saves
\* rush-link.json; linking never gets past P, and the run that fails at P
\* fails with the error of the unmatched name (the ConfigurationError of the
\* design), which carries the first such name and P.
C5_UnmatchedRushDependency ==
  \A p \in ProjectNames :
     UnmatchedKeys(p) # {} =>
       /\ result # "resolved"
       /\ saves = 0
       /\ rushLinkJsonFile = atRunStart.rushLinkJsonFile
       /\ projIdx <= IndexOf(p)
       /\ RunEnded => result = "rejected"
       /\ (error # NoError /\ projIdx = IndexOf(p)) =>
            /\ error.text = "Cannot find dependency"
            /\ error.dependencyName = FirstUnmatched(p)
            /\ error.packageName = p

C5_Witness ==
  /\ Failed
  /\ rushDependencies["a"] = <<"b", StaleName>>
  /\ error.text = "Cannot find dependency"
  /\ HasKey(rushLinkJson, "a")
  /\ ~rushLinkJsonFile.exists

\* what PNPM left for the dependency of the project is missing or is a plain
\* directory
BadInstallation(project, dependencyName) ==
  lstatSync(dependencyLocalInstallationSymlink(project, dependencyName)).kind
    \in {"absent", "dir"}

BackendErrorTexts == {"Cannot find installed dependency", "Dependency is not a symlink"}

C6_NoLinkForBadInstallation ==
  \A p \in ProjectNames : \A d \in Range(dependencies[p]) :
     BadInstallation(getProjectByName(p)[1], d) =>
       /\ \A c \in created : c.path # NodeModulesPath(FolderOf(p), d)
       /\ LinkAt(p, d) = atRunStart.nodeModules[p][d]
       /\ result # "resolved"
       /\ projIdx <= IndexOf(p)

C6_BadInstallationThrows ==
  (pc = "dependencies"
     /\ BadInstallation(projects[projIdx], dependencies[projects[projIdx].packageName][depIdx]))
  => /\ pc' = "catch"
     /\ error'.text \in BackendErrorTexts
     /\ error'.text = "Cannot find installed dependency"
          <=> ~existsSync(dependencyLocalInstallationSymlink(
                 projects[projIdx], dependencies[projects[projIdx].packageName][depIdx]))
     /\ error'.dependencyName = dependencies[projects[projIdx].packageName][depIdx]
     /\ nodeModules' = nodeModules
     /\ created' = created

\* C6: for a key D of the dependencies of P whose place in PNPM's local
\* installation holds nothing or a plain directory: the iteration of the loop
\* that reaches D throws one of the two errors of the installation (the
\* BackendInvariantViolationError of the design) and creates nothing; no link
\* is created at P/node_modules/D, no run resolves, and linking never gets
\* past P.
C6_BadInstallation ==
  /\ []C6_NoLinkForBadInstallation
  /\ [][C6_BadInstallationThrows]_vars

C6_Witness ==
  /\ pc = "catch"
  /\ error.text = "Dependency is not a symlink"
  /\ projIdx = 2
  /\ created # {}
  /\ BadInstallation(projects[2], ThirdPartyName)

ConflictText == "Link path holds a real directory"

C7_RealDirectoriesKept ==
  \A p \in ProjectNames : \A n \in LinkNames :
     atRunStart.nodeModules[p][n] = RealDir =>
       /\ nodeModules[p][n] = RealDir
       /\ \A c \in created : c.path # NodeModulesPath(FolderOf(p), n)

\* the link path _createSymlink is about to be called with, if any
NextLinkSource ==
  CASE pc = "symlinks" -> children[depIdx].folderPath
    [] pc = "bin" /\ existsSync(commonBinFolder) ->
         NodeModulesPath(projects[projIdx].projectFolder, BinName)
    [] OTHER -> NoPath

C7_ConflictThrows ==
  (NextLinkSource # NoPath /\ lstatSync(NextLinkSource) = RealDir)
  => /\ pc' = "catch"
     /\ error'.text = ConflictText
     /\ error'.path = NextLinkSource
     /\ nodeModules' = nodeModules

\* C7: _createSymlink called with a link path that holds a real populated
\* directory throws the conflict error (the FilesystemConflictError of the
\* design) and removes nothing: every node_modules folder is the same after the
\* call, and a real directory a run found is still there at any later point.
C7_ConflictKeepsDirectory ==
  /\ []C7_RealDirectoriesKept
  /\ [][C7_ConflictThrows]_vars

C7_Witness ==
  /\ pc = "catch"
  /\ error.text = ConflictText
  /\ error.path = NodeModulesPath(FolderOf("a"), "b")
  /\ LinkAt("a", "b") = RealDir
  /\ LinkAt("a", "c").kind = "symlink"

\* C8: in the rush-link.json a run that resolves has saved, the value of the
\* key P is the sequence of the rushDependencies keys of P in their order (no
\* key when P has none), every key is a project and occurs once, and every
\* name of a value is a project of the configuration and no key of the
\* dependencies of P.
C8_ManifestSequences ==
  Succeeded =>
    LET localLinks == rushLinkJsonFile.localLinks
    IN /\ rushLinkJsonFile.exists
       /\ \A p \in ProjectNames : LocalLinksOf(localLinks, p) = rushDependencies[p]
       /\ \A i, j \in 1..Len(localLinks) :
             /\ localLinks[i].key \in ProjectNames
             /\ localLinks[i].key = localLinks[j].key => i = j
             /\ Range(localLinks[i].value) \subseteq ProjectNames
             /\ Range(localLinks[i].value) \cap Range(dependencies[localLinks[i].key]) = {}

C8_Witness ==
  /\ Succeeded
  /\ rushDependencies["a"] = <<"c", "b">>
  /\ dependencies["a"] = <<ThirdPartyName>>
  /\ LocalLinksOf(rushLinkJsonFile.localLinks, "a") = <<"c", "b">>
  /\ LocalLinksOf(rushLinkJsonFile.localLinks, "b") = <<"a">>

\* the links a project that was linked to the end has: one per key of
\* rushDependencies, one per key of dependencies, and ".bin"
LinksOfCompleted(project) ==
  LET name == project.packageName
  IN /\ \A d \in Range(rushDependencies[name]) : LinkAt(name, d) = Symlink(FolderOf(d))
     /\ \A d \in Range(dependencies[name]) :
           LinkAt(name, d) = Symlink(dependencyLocalInstallationSymlink(project, d))
     /\ commonBinExists => LinkAt(name, BinName) = Symlink(commonBinFolder)

\* C9: once a statement of a run has thrown, every link the run created is
\* in place with the target it was created with, every project before the
\* failing one has all its links, and the run ends with a rejected promise.
C9_CompletedLinksKept ==
  error # NoError =>
    /\ \A c \in created : lstatSync(c.path) = Symlink(c.target)
    /\ \A i \in 1..(projIdx - 1) : LinksOfCompleted(projects[i])
    /\ RunEnded => result = "rejected"

C9_Witness ==
  /\ Failed
  /\ projIdx = 2
  /\ LinkAt("a", "b") = Symlink(FolderOf("b"))
  /\ LinkAt("a", ThirdPartyName).kind = "symlink"
  /\ LinkAt("a", BinName).kind = "symlink"

\* C10: an error thrown for a dependency D of project P (D matches no project;
\* nothing installed for D; what is installed for D is no symlink) carries D,
\* and carries P: either the package name of P, or the folder of the local
\* installation of P, which is the folder of no other project.
C10_ErrorsNameProjectAndDependency ==
  error.text \in {"Cannot find dependency"} \cup BackendErrorTexts =>
    LET project == projects[projIdx]
        keys == IF error.text = "Cannot find dependency"
                THEN rushDependencies[project.packageName]
                ELSE dependencies[project.packageName]
    IN /\ error.dependencyName = keys[depIdx]
       /\ \/ error.packageName = project.packageName
          \/ \A i \in 1..Len(projects) :
                pathToLocalInstallation(projects[i]) = error.path <=> i = projIdx

C10_Witness ==
  /\ pc = "catch"
  /\ error.text = "Cannot find installed dependency"
  /\ projIdx = 2
  /\ error.dependencyName = ThirdPartyName
  /\ error.path = pathToLocalInstallation(projects[2])

ChildNames == {children[i].name : i \in 1..Len(children)}

C11_DistinctChildren ==
  \A i, j \in 1..Len(children) : i # j => children[i].name # children[j].name

\* the iteration of the loop over dependencies that is about to run reaches
\* addChild (the installation of the dependency passes both checks) with the
\* name of a child the package already has
AddsDuplicateChild ==
  /\ pc = "dependencies"
  /\ LET project == projects[projIdx]
         dependencyName == dependencies[project.packageName][depIdx]
         symlink == dependencyLocalInstallationSymlink(project, dependencyName)
     IN /\ existsSync(symlink)
        /\ lstatSync(symlink).kind = "symlink"
        /\ dependencyName \in ChildNames

C11_DuplicateChildThrows ==
  [][AddsDuplicateChild =>
       /\ pc' = "catch"
       /\ children' = children
       /\ error'.text = "Child already exists"
       /\ error'.packageName = projects[projIdx].packageName
       /\ error'.dependencyName = dependencies[projects[projIdx].packageName][depIdx]]_vars

\* C11: the children of the package under construction never hold two
\* children of one name, and the addChild of a name the package already holds
\* (a child the loop over rushDependencies pushed included) throws an error
\* that carries the parent and the duplicate name, and adds nothing.
C11_NoDuplicateChildren == []C11_DistinctChildren /\ C11_DuplicateChildThrows

C11_Witness ==
  /\ pc = "catch"
  /\ error.text = "Child already exists"
  /\ error.packageName = "a"
  /\ error.dependencyName = "b"
  /\ \E i \in 1..Len(children) :
        children[i].name = "b" /\ children[i].symlinkTargetFolderPath = FolderOf("b")

\* C20: the tree of a project has depth one: every child of the package under
\* construction has a symlink target and no children, its folder is directly
\* in the node_modules folder of the project, and so is every link the run
\* has created.
C20_TreeDepthOne ==
  /\ \A i \in 1..Len(children) :
        /\ children[i].symlinkTargetFolderPath # NoPath
        /\ children[i].children = <<>>
        /\ children[i].folderPath
             = NodeModulesPath(projects[projIdx].projectFolder, children[i].name)
  /\ \A c \in created :
        \E i \in 1..Len(projects) :
           c.path = NodeModulesPath(projects[i].projectFolder, c.path.entry)

C20_Witness ==
  /\ pc = "bin"
  /\ projIdx = 1
  /\ Len(children) = 3
  /\ Cardinality(created) = Len(children)

\* the paths below a node_modules folder of a project that a step writes
WrittenBy(before, after) ==
  {path \in {NodeModulesPath(ProjectFolderPath(p), n) : p \in ProjectNames, n \in LinkNames} :
     before[path.owner][path.entry] # after[path.owner][path.entry]}

\* C14: a step of a run, of one that resolves and of one that rejects alike,
\* leaves what PNPM installed and the temp package.json files as they are, and
\* writes only link paths in the node_modules folder of the project that is
\* being linked: each such path holds a symlink after the step, and nothing in
\* the folder of another project changes.
C14_Frame ==
  [][/\ localInstallation' = localInstallation
     /\ rushDependencies' = rushDependencies
     /\ dependencies' = dependencies
     /\ commonBinExists' = commonBinExists
     /\ \A c \in created' \ created :
           /\ c.path.area = "project/node_modules"
           /\ c.path.owner = projects[projIdx].projectFolder.owner
     /\ \A path \in WrittenBy(nodeModules, nodeModules') :
           /\ path.owner = projects[projIdx].projectFolder.owner
           /\ nodeModules'[path.owner][path.entry].kind = "symlink"
           /\ path \in {c.path : c \in created'}]_vars

C14_Witness ==
  /\ Failed
  /\ projIdx = 2
  /\ Cardinality(created) >= 2
  /\ nodeModules["a"] # atRunStart.nodeModules["a"]
  /\ nodeModules["c"] = atRunStart.nodeModules["c"]

C15_SaveCount ==
  /\ saves <= 1
  /\ Succeeded => saves = 1
  /\ saves = 1 => pc = "idle"

C15_SaveIsLast ==
  [][saves' = saves + 1 =>
       /\ pc = "save"
       /\ projIdx = Len(projects)
       /\ error = NoError
       /\ \A i \in 1..Len(projects) : LinksOfCompleted(projects[i])
       /\ nodeModules' = nodeModules
       /\ pc' = "idle"]_vars

\* C15: a run calls JsonFile.save at most once, a run that resolves exactly
\* once; the call comes when the last project has all its links, every
\* project before it too, and it is the last step of the run, so no link is
\* created after it and none of the projects is linked after it.
C15_ManifestWrittenOnceAtEnd == []C15_SaveCount /\ C15_SaveIsLast

C15_Witness ==
  /\ Succeeded
  /\ saves = 1
  /\ Cardinality(created) >= 5
  /\ rushLinkJsonFile # atRunStart.rushLinkJsonFile

\* _writeChangeFiles() was called with a change file for the path, and the
\* file of the path existed then
ExistedWhenWritten(path) ==
  /\ changePc # "start"
  /\ path \in DataPaths
  /\ changeFilesAtStart[path].kind = "file"

\* C19 as stated: for a change file whose path existed when
\* _writeChangeFiles() was called, the user is prompted, the file holds
\* something else than before only if the user answered yes, and after the
\* answer no it holds what it held.
C19_OverwriteOnlyIfConfirmed ==
  \A path \in ChangePaths :
     ExistedWhenWritten(path) =>
       /\ path \in prompts \/ answers[path] # "none"
       /\ changeFiles[path] # changeFilesAtStart[path] => answers[path] = "yes"
       /\ answers[path] = "no" => changeFiles[path] = changeFilesAtStart[path]

\* the part of C19 the code keeps: the user is prompted for every change file
\* whose path existed, and the handler of the answer calls _writeFile only
\* for the answer yes
C19_PromptedAndAnswerHonoured ==
  \A path \in ChangePaths :
     /\ ExistedWhenWritten(path) => path \in prompts \/ answers[path] # "none"
     /\ writeFileCalls[<<path, "answer">>] # NotCalled => answers[path] = "yes"

\* the file was overwritten although the user answered no
C19_OverwrittenAfterNo ==
  \E path \in ChangePaths :
     /\ ExistedWhenWritten(path)
     /\ answers[path] = "no"
     /\ changeFiles[path] = RegularFile(OutputFor(path))
     /\ changeFiles[path] # changeFilesAtStart[path]

---------------------------------------------------------------------------
(* _linkProject() of projects that are linked side by side: section 5 of the
   design lets the projects be linked in parallel, each by a worker of its
   own, so the file system steps of two calls interleave *)

ParallelProjects == {"a", "b"}

\* the loop over dependencies, lines 149-190, from its i-th key on: the
\* children of localPackage when the loop ends, or threw when a key throws
RECURSIVE ChildrenAfterDependencies(_, _, _)
ChildrenAfterDependencies(project, ch, i) ==
  LET keys == dependencies[project.packageName]
      dependencyName == keys[i]
      symlink == dependencyLocalInstallationSymlink(project, dependencyName)
      newLocalPackage ==
        LinkedPackage(dependencyName,
                      NodeModulesPath(project.projectFolder, dependencyName),
                      DependencyTarget(project, dependencyName))
  IN IF i > Len(keys)
     THEN [threw |-> FALSE, children |-> ch]
     ELSE IF \/ ~existsSync(symlink)
             \/ ~isSymbolicLink(lstatSync(symlink))
             \/ addChild(ch, newLocalPackage) = <<>>
     THEN [threw |-> TRUE, children |-> ch]
     ELSE ChildrenAfterDependencies(project, addChild(ch, newLocalPackage), i + 1)

\* lines 81-190 of _linkProject(): the loop over rushDependencies, then the
\* loop over dependencies
TreeOf(project) ==
  LET keys == rushDependencies[project.packageName]
  IN IF UnmatchedKeys(project.packageName) # {}
     THEN [threw |-> TRUE, children |-> <<>>]
     ELSE ChildrenAfterDependencies(
            project,
            [i \in 1..Len(keys) |->
               LinkedPackage(keys[i],
                             NodeModulesPath(project.projectFolder, keys[i]),
                             RushDependencyTarget(getProjectByName(keys[i])[1]))],
            1)

\* lines 196-204: the calls of _createSymlink for the project, in order: one
\* per child, then the one of ".bin"
LinksOf(project) ==
  LET tree == TreeOf(project)
  IN IF tree.threw
     THEN <<>>
     ELSE [i \in 1..Len(tree.children) |->
             [path |-> tree.children[i].folderPath,
              target |-> tree.children[i].symlinkTargetFolderPath]]
          \o (IF existsSync(commonBinFolder)
              THEN << [path |-> NodeModulesPath(project.projectFolder, BinName),
                       target |-> commonBinFolder] >>
              ELSE <<>>)

LinkPathsOf(project) == {LinksOf(project)[i].path : i \in 1..Len(LinksOf(project))}

\* link paths that hold a link of an earlier run
OldLinkCandidates ==
  {NodeModulesPath(ProjectFolderPath("a"), ThirdPartyName),
   NodeModulesPath(ProjectFolderPath("b"), "a")}

OldLink == Symlink(StorePath(ThirdPartyName, RemovedVersion))

InstalledSymlinks(deps) ==
  {i \in InstallationsFor(deps) :
     \A n \in Range(deps) : i[n] = Absent \/ (i[n].kind = "symlink" /\ existsSync(i[n].target))}

ParallelInit ==
  /\ \E ra \in DistinctSeqs(InternalNames("a") \cap ProjectNames, MaxRushDeps),
        rb \in DistinctSeqs(InternalNames("b"), MaxRushDeps) :
        rushDependencies = PerProject(ra, rb, <<>>)
  /\ \E da \in DistinctSeqs(RegularNames("a"), MaxDeps),
        db \in DistinctSeqs(RegularNames("b"), MaxDeps) :
        /\ dependencies = PerProject(da, db, <<>>)
        /\ \E ia \in InstalledSymlinks(da), ib \in InstalledSymlinks(db) :
              localInstallation = PerProject(ia, ib, [n \in AllNames |-> Absent])
  /\ commonBinExists \in BOOLEAN
  /\ \E dirs \in SUBSET RealDirCandidates, old \in SUBSET OldLinkCandidates :
        /\ Cardinality(dirs) <= MaxRealDirs
        /\ nodeModules =
             [p \in ProjectNames |->
                [n \in LinkNames |->
                   CASE NodeModulesPath(ProjectFolderPath(p), n) \in dirs -> RealDir
                     [] NodeModulesPath(ProjectFolderPath(p), n) \in old -> OldLink
                     [] OTHER -> Absent]]
  /\ rushLinkJsonFile = NoFile
  /\ pc = "idle"
  /\ projIdx = 0
  /\ depIdx = 0
  /\ rushLinkJson = <<>>
  /\ children = <<>>
  /\ error = NoError
  /\ result = "none"
  /\ runs = 0
  /\ atRunStart = [nodeModules |-> nodeModules, rushLinkJsonFile |-> rushLinkJsonFile]
  /\ created = {}
  /\ saves = 0
  /\ lastRun = NoRun
  /\ prevRun = NoRun
  /\ linkCount = NoLinkCreated
  /\ changeFileData = <<>>
  /\ changeFiles = [path \in ChangePaths |-> Absent]
  /\ changeFilesAtStart = changeFiles
  /\ ChangeNotStarted
  /\ CommandsNotStarted
  /\ workers = [p \in ParallelProjects |-> [state |-> "ready", next |-> 0]]
  /\ NestedNotStarted

\* lines 57-190 of the _linkProject() of p: the tree is built, or a statement throws
WorkerBuildsTree(p) ==
  /\ workers[p].state = "ready"
  /\ LET project == getProjectByName(p)[1]
     IN workers' =
          [workers EXCEPT ![p] =
             IF TreeOf(project).threw
             THEN [state |-> "failed", next |-> 0]
             ELSE IF Len(LinksOf(project)) = 0
             THEN [state |-> "done", next |-> 0]
             ELSE [state |-> "linking", next |-> 1]]
  /\ UNCHANGED <<linkVars, changeVars, nestedVars, commandVars>>

\* BaseLinkManager._createSymlink: what is at linkSource is removed
AfterRemove(nm, linkSource) ==
  [nm EXCEPT ![linkSource.owner][linkSource.entry] = Absent]

\* the first half of the _createSymlink of the next link of p: a real
\* directory is a conflict, anything else at the link path is removed
WorkerRemoves(p) ==
  /\ workers[p].state = "linking"
  /\ LET link == LinksOf(getProjectByName(p)[1])[workers[p].next]
     IN IF CanCreateSymlink(link.path)
        THEN /\ nodeModules' = AfterRemove(nodeModules, link.path)
             /\ workers' = [workers EXCEPT ![p].state = "removed"]
        ELSE /\ nodeModules' = nodeModules
             /\ workers' = [workers EXCEPT ![p].state = "failed"]
  /\ UNCHANGED <<config, rushLinkJsonFile, pc, projIdx, depIdx, rushLinkJson, children,
                 error, result, runs, hist, changeVars, nestedVars, commandVars>>

\* the second half: the link is created
WorkerCreates(p) ==
  /\ workers[p].state = "removed"
  /\ LET links == LinksOf(getProjectByName(p)[1])
         link == links[workers[p].next]
     IN /\ nodeModules' = AfterCreateSymlink(nodeModules, link.target, link.path)
        /\ workers' =
             [workers EXCEPT ![p] =
                IF @.next < Len(links)
                THEN [state |-> "linking", next |-> @.next + 1]
                ELSE [state |-> "done", next |-> @.next]]
  /\ UNCHANGED <<config, rushLinkJsonFile, pc, projIdx, depIdx, rushLinkJson, children,
                 error, result, runs, hist, changeVars, nestedVars, commandVars>>

ParallelNext ==
  \/ \E p \in ParallelProjects : WorkerBuildsTree(p)
  \/ \E p \in ParallelProjects : WorkerRemoves(p)
  \/ \E p \in ParallelProjects : WorkerCreates(p)

ParallelSpec == ParallelInit /\ [][ParallelNext]_vars

\* the calls of _createSymlink of the links from the i-th on, one after the
\* other on the node_modules folders fs: a real directory at a link path ends
\* the calls
RECURSIVE LinkedFrom(_, _, _)
LinkedFrom(fs, links, i) ==
  IF i > Len(links)
  THEN fs
  ELSE IF fs[links[i].path.owner][links[i].path.entry].kind = "dir"
  THEN fs
  ELSE LinkedFrom([fs EXCEPT ![links[i].path.owner][links[i].path.entry] =
                                Symlink(links[i].target)],
                  links, i + 1)

\* the projects that are linked side by side, in the order of the configuration
ParallelOrder == SelectSeq(projects, LAMBDA p : p.packageName \in ParallelProjects)

\* the node_modules folders after the projects from the i-th on were linked
\* one after the other, each up to its last link or to its throw
RECURSIVE SequentialRun(_, _)
SequentialRun(fs, i) ==
  IF i > Len(ParallelOrder)
  THEN fs
  ELSE SequentialRun(LinkedFrom(fs, LinksOf(ParallelOrder[i]), 1), i + 1)

WorkersEnded == \A p \in ParallelProjects : workers[p].state \in {"done", "failed"}

TreeAgreesWithRun ==
  /\ pc \in {"symlinks", "bin"} =>
       /\ ~TreeOf(projects[projIdx]).threw
       /\ children = TreeOf(projects[projIdx]).children
  /\ (pc = "catch" /\ error.text # ConflictText) => TreeOf(projects[projIdx]).threw
  /\ Succeeded =>
       created = UNION {{LinksOf(projects[i])[j] : j \in 1..Len(LinksOf(projects[i]))} :
                          i \in 1..Len(projects)}

\* the link path of the _createSymlink the worker of p is in
LinkPathInFlight(p) == LinksOf(getProjectByName(p)[1])[workers[p].next].path

\* the paths the steps of the _linkProject() of a project read or write: what
\* PNPM installed for its dependencies and where that leads, the common
\* ".bin" folder, and its own link paths
StepPathsOf(project) ==
  LinkPathsOf(project)
    \cup {commonBinFolder}
    \cup {dependencyLocalInstallationSymlink(project, d) :
            d \in Range(dependencies[project.packageName])}
    \cup {readlinkSync(dependencyLocalInstallationSymlink(project, d)) :
            d \in Range(dependencies[project.packageName])}

C13_RemovedIsUnobserved ==
  \A p \in ParallelProjects :
     workers[p].state = "removed" =>
       /\ lstatSync(LinkPathInFlight(p)) = Absent
       /\ \A q \in ParallelProjects \ {p} :
             LinkPathInFlight(p) \notin StepPathsOf(getProjectByName(q)[1])

C13_RemoveThenCreate ==
  [][\A p \in ParallelProjects :
       LET path == IF workers[p].state \in {"linking", "removed"}
                   THEN LinkPathInFlight(p) ELSE NoPath
           before == nodeModules[path.owner][path.entry]
           after == nodeModules'[path.owner][path.entry]
       IN (path # NoPath /\ before # after) =>
            /\ workers'[p] # workers[p]
            /\ \/ workers[p].state = "linking" /\ before.kind = "symlink" /\ after = Absent
               \/ workers[p].state = "removed" /\ before = Absent /\ after.kind = "symlink"]_vars

\* C13: a link that is replaced is removed and then created; between the two
\* the link path holds nothing, no step of the linking of another project
\* reads or writes the path, and the step that changes it next is the
\* creation of the link.
C13_ReplaceNotObserved == []C13_RemovedIsUnobserved /\ C13_RemoveThenCreate

C13_Witness ==
  /\ workers["a"].state = "removed"
  /\ LinkPathInFlight("a") = NodeModulesPath(ProjectFolderPath("a"), ThirdPartyName)
  /\ atRunStart.nodeModules["a"][ThirdPartyName] = OldLink
  /\ workers["b"].state = "removed"
  /\ LinkPathInFlight("b") = NodeModulesPath(ProjectFolderPath("b"), ThirdPartyName)

---------------------------------------------------------------------------
(* Link Strategy: Nested, section 4.3 of the design *)

NestedInit ==
  /\ \E missing \in SUBSET StagedKeys :
        /\ Cardinality(missing) <= MaxMissing
        /\ \E g1, g2 \in KeySeqs(StagedDependencyNames(SecondPartyName), MaxNestedDeps),
              r1 \in KeySeqs(StagedDependencyNames(ThirdLevelName), MaxNestedDeps) :
              staging = [k \in StagedKeys |->
                           [present |-> k \notin missing,
                            dependencies |->
                              CASE k \in missing -> <<>>
                                [] k = Key(SecondPartyName, "1.0.0") -> g1
                                [] k = Key(SecondPartyName, "2.0.0") -> g2
                                [] k = Key(ThirdLevelName, "1.0.0") -> r1
                                [] OTHER -> <<>>]]
  /\ \E oa \in KeySeqs(OrdinaryNames("a"), MaxNestedDeps),
        ob \in KeySeqs(OrdinaryNames("b"), MaxNestedDeps) :
        ordinary = PerProject(oa, ob, <<>>)
  /\ \E ra \in DistinctSeqs({"b"}, MaxRushDeps) : rushDependencies = PerProject(ra, <<>>, <<>>)
  /\ dependencies = PerProject(<<>>, <<>>, <<>>)
  /\ localInstallation = [p \in ProjectNames |-> [n \in AllNames |-> Absent]]
  /\ commonBinExists = FALSE
  /\ nodeModules = NoRun.nodeModules
  /\ rushLinkJsonFile = NoFile
  /\ pc = "idle"
  /\ projIdx = 0
  /\ depIdx = 0
  /\ rushLinkJson = <<>>
  /\ children = <<>>
  /\ error = NoError
  /\ result = "none"
  /\ runs = 0
  /\ atRunStart = [nodeModules |-> nodeModules, rushLinkJsonFile |-> rushLinkJsonFile]
  /\ created = {}
  /\ saves = 0
  /\ lastRun = NoRun
  /\ prevRun = NoRun
  /\ linkCount = NoLinkCreated
  /\ changeFileData = <<>>
  /\ changeFiles = [path \in ChangePaths |-> Absent]
  /\ changeFilesAtStart = changeFiles
  /\ ChangeNotStarted
  /\ CommandsNotStarted
  /\ WorkersNotStarted
  /\ nestedLinks = [path \in NestedLinkPaths |-> NoPath]
  /\ nestedTree = <<>>
  /\ queue = <<>>
  /\ materialized = {}
  /\ npc = "idle"
  /\ nproj = 0
  /\ ndep = 0
  /\ nerror = NoNestedError
  /\ expansions = [k \in StagedKeys |-> 0]

\* a node of the tree: createLinkedNode(name, version, folderPath) with its
\* symlink target; parent is the index of the node above it (0: the root),
\* leaf tells that its staging manifest is not followed
NestedNode(key, folderPath, symlinkTargetFolderPath, parent, leaf) ==
  [name |-> key.name, version |-> key.version, folderPath |-> folderPath,
   symlinkTargetFolderPath |-> symlinkTargetFolderPath, parent |-> parent, leaf |-> leaf]

\* a staging output that is taken to hold every pair
IsStagedAlways(key) == TRUE

\* the backend's resolved staging output holds (name, version)
IsStaged(key) == staging[key].present

\* a lookup that never finds the pair
IsMaterializedNever(key, table) == FALSE

\* the lookup table keyed by (name, version): the pair is in the tree already
IsMaterialized(key, table) == key \in table

MissingDependencyError(project, dependencyName) ==
  [kind |-> "MissingDependencyError", project |-> project.packageName,
   dependency |-> dependencyName]

\* step 3 for one ordinary dependency of the folder of a node (or of the root):
\* the state of the construction with the node for it, at <folder>/deps/<name>
\* and with the staging copy as its symlink target; a pair the backend did not
\* stage is noted as missing
AddOrdinary(st, parent, folderPath, key) ==
  IF st.missing # ""
  THEN st
  ELSE IF ~IsStaged(key)
  THEN [st EXCEPT !.missing = key.name]
  ELSE LET leaf == IsMaterialized(key, st.materialized)
       IN [tree |-> Append(st.tree,
                           NestedNode(key, DepsPath(folderPath, key.name), StagingPath(key),
                                      parent, leaf)),
           queue |-> IF leaf THEN st.queue ELSE Append(st.queue, Len(st.tree) + 1),
           materialized |-> st.materialized \cup {key},
           missing |-> st.missing]

RECURSIVE AddOrdinaries(_, _, _, _, _)
AddOrdinaries(st, parent, folderPath, keys, i) ==
  IF i > Len(keys)
  THEN st
  ELSE AddOrdinaries(AddOrdinary(st, parent, folderPath, keys[i]), parent, folderPath,
                     keys, i + 1)

\* step 2: the nodes for the internal dependencies of the project, each with
\* the folder of the project it names as its symlink target
InternalNodes(project) ==
  LET names == rushDependencies[project.packageName]
  IN [i \in 1..Len(names) |->
        NestedNode(Key(names[i], ""), DepsPath(project.projectFolder, names[i]),
                   getProjectByName(names[i])[1].projectFolder, 0, TRUE)]

RECURSIVE RecordInternal(_, _, _, _)
RecordInternal(localLinks, name, names, i) ==
  IF i > Len(names)
  THEN localLinks
  ELSE RecordInternal(PushLocalLink(localLinks, name, names[i]), name, names, i + 1)

AfterOrdinary(q) == IF Len(q) > 0 THEN "recurse" ELSE "project"

\* steps 1 and 2 for the next project
NestedBegin ==
  /\ npc \in {"idle", "projected"}
  /\ nproj < Len(projects)
  /\ nproj' = nproj + 1
  /\ LET project == projects[nproj + 1]
     IN /\ nestedTree' = InternalNodes(project)
        /\ rushLinkJson' = RecordInternal(rushLinkJson, project.packageName,
                                          rushDependencies[project.packageName], 1)
        /\ npc' = IF Len(ordinary[project.packageName]) > 0 THEN "ordinary" ELSE "project"
  /\ queue' = <<>>
  /\ materialized' = {}
  /\ ndep' = 1
  /\ expansions' = [k \in StagedKeys |-> 0]
  /\ UNCHANGED <<config, nodeModules, rushLinkJsonFile, pc, projIdx, depIdx, children, error,
                 result, runs, hist, changeVars, parallelVars, commandVars, staging, ordinary,
                 nestedLinks, nerror>>

\* step 3 for one ordinary dependency of the project
NestedOrdinaryStep ==
  /\ npc = "ordinary"
  /\ LET project == projects[nproj]
         keys == ordinary[project.packageName]
         st == AddOrdinary([tree |-> nestedTree, queue |-> queue,
                            materialized |-> materialized, missing |-> ""],
                           0, project.projectFolder, keys[ndep])
     IN IF st.missing # ""
        THEN /\ nerror' = MissingDependencyError(project, st.missing)
             /\ npc' = "failed"
             /\ UNCHANGED <<nestedTree, queue, materialized, ndep>>
        ELSE /\ nestedTree' = st.tree
             /\ queue' = st.queue
             /\ materialized' = st.materialized
             /\ IF ndep < Len(keys)
                THEN ndep' = ndep + 1 /\ npc' = npc
                ELSE ndep' = 1 /\ npc' = AfterOrdinary(st.queue)
             /\ nerror' = nerror
  /\ UNCHANGED <<linkVars, commandVars, changeVars, parallelVars, staging, ordinary, nestedLinks, nproj,
                 expansions>>

\* the recursion of step 3, one level at a time: the manifest of the staging
\* copy of the first node of the queue is followed, and the nodes for what
\* it lists are built inside the folder of the staging copy
NestedRecurseStep ==
  /\ npc = "recurse"
  /\ LET project == projects[nproj]
         parent == queue[1]
         node == nestedTree[parent]
         key == Key(node.name, node.version)
         st == AddOrdinaries([tree |-> nestedTree, queue |-> Tail(queue),
                              materialized |-> materialized, missing |-> ""],
                             parent, node.symlinkTargetFolderPath,
                             staging[key].dependencies, 1)
     IN /\ expansions' = [expansions EXCEPT ![key] = @ + 1]
        /\ IF st.missing # ""
           THEN /\ nerror' = MissingDependencyError(project, st.missing)
                /\ npc' = "failed"
                /\ UNCHANGED <<nestedTree, queue, materialized>>
           ELSE /\ nestedTree' = st.tree
                /\ queue' = st.queue
                /\ materialized' = st.materialized
                /\ npc' = AfterOrdinary(st.queue)
                /\ nerror' = nerror
  /\ UNCHANGED <<linkVars, commandVars, changeVars, parallelVars, staging, ordinary, nestedLinks, nproj,
                 ndep>>

\* ensureSymlink(targetPath, linkPath) for the nodes from the i-th on
RECURSIVE Projected(_, _, _)
Projected(links, nodes, i) ==
  IF i > Len(nodes)
  THEN links
  ELSE Projected([links EXCEPT ![nodes[i].folderPath] = nodes[i].symlinkTargetFolderPath],
                 nodes, i + 1)

\* the tree of the project is projected on the file system
NestedProjectStep ==
  /\ npc = "project"
  /\ nestedLinks' = Projected(nestedLinks, nestedTree, 1)
  /\ npc' = "projected"
  /\ UNCHANGED <<linkVars, commandVars, changeVars, parallelVars, staging, ordinary, nestedTree, queue,
                 materialized, nproj, ndep, nerror, expansions>>

NestedNext ==
  \/ NestedBegin
  \/ NestedOrdinaryStep
  \/ NestedRecurseStep
  \/ NestedProjectStep

NestedSpec == NestedInit /\ [][NestedNext]_vars

---------------------------------------------------------------------------
(* Properties of the Nested strategy *)

OrdinaryNamesOf(p) == {ordinary[p][i].name : i \in 1..Len(ordinary[p])}

\* the (name, version) the manifest of project p resolves the name to
ResolvedKey(p, name) == CHOOSE k \in Range(ordinary[p]) : k.name = name

\* the tree of the i-th project was built and projected
NestedLinked(i) == nproj > i \/ (nproj = i /\ npc = "projected")

\* the (name, version) pairs whose staging copy is the folder
StagedAt(path) == {k \in StagedKeys : StagingPath(k) = path}

\* the link paths of the subtree for a dependency of a folder: its own, and
\* those in the staging copies its manifest leads to
RECURSIVE SubtreePaths(_, _)
SubtreePaths(folderPath, key) ==
  {DepsPath(folderPath, key.name)}
    \cup UNION {SubtreePaths(StagingPath(key), d) : d \in Range(staging[key].dependencies)}

C16_OwnVersionEach ==
  \A i, j \in 1..Len(projects) :
     LET p == projects[i]
         q == projects[j]
     IN (i # j /\ NestedLinked(i) /\ NestedLinked(j)) =>
          \A name \in OrdinaryNamesOf(p.packageName) \cap OrdinaryNamesOf(q.packageName) :
             LET kp == ResolvedKey(p.packageName, name)
                 kq == ResolvedKey(q.packageName, name)
             IN kp.version # kq.version =>
                  /\ StagedAt(nestedLinks[DepsPath(p.projectFolder, name)]) = {kp}
                  /\ StagedAt(nestedLinks[DepsPath(q.projectFolder, name)]) = {kq}
                  /\ SubtreePaths(p.projectFolder, kp) \cap SubtreePaths(q.projectFolder, kq) = {}

C16_LaterKeepsEarlier ==
  [][\A i \in 1..Len(projects) :
       NestedLinked(i) =>
         \A k \in Range(ordinary[projects[i].packageName]) :
            \A path \in SubtreePaths(projects[i].projectFolder, k) :
               nestedLinks'[path] = nestedLinks[path]]_vars

StagedNodes == {i \in 1..Len(nestedTree) : nestedTree[i].version # ""}

KeyOfNode(i) == Key(nestedTree[i].name, nestedTree[i].version)

\* C17: in the tree of one project the staging manifest of a (name, version)
\* pair is followed at most once; a later node for a pair the tree already
\* holds is a leaf (nothing is built below it, and it is not queued), it has
\* a link path of its own and the staging copy of the pair as its target,
\* and once the tree is projected every node has its symlink.
C17_MaterializedOnce ==
  /\ \A k \in StagedKeys : expansions[k] <= 1
  /\ \A i, j \in StagedNodes :
        (i < j /\ KeyOfNode(i) = KeyOfNode(j)) =>
          /\ nestedTree[j].leaf
          /\ \A c \in 1..Len(nestedTree) : nestedTree[c].parent # j
          /\ \A c \in 1..Len(queue) : queue[c] # j
          /\ nestedTree[i].folderPath # nestedTree[j].folderPath
          /\ nestedTree[i].symlinkTargetFolderPath = StagingPath(KeyOfNode(i))
          /\ nestedTree[j].symlinkTargetFolderPath = StagingPath(KeyOfNode(i))
  /\ npc = "projected" =>
       \A i \in 1..Len(nestedTree) :
          nestedLinks[nestedTree[i].folderPath] = nestedTree[i].symlinkTargetFolderPath

C17_Witness ==
  /\ npc = "projected"
  /\ nproj = 1
  /\ staging[Key(SecondPartyName, "1.0.0")].dependencies = <<Key(ThirdPartyName, "2.0.0")>>
  /\ expansions[Key(SecondPartyName, "1.0.0")] = 1
  /\ nestedLinks[DepsPath(ProjectFolderPath("a"), SecondPartyName)]
       = StagingPath(Key(SecondPartyName, "1.0.0"))
  /\ nestedLinks[DepsPath(StagingPath(Key(ThirdLevelName, "1.0.0")), SecondPartyName)]
       = StagingPath(Key(SecondPartyName, "1.0.0"))
  /\ \E i, j \in StagedNodes :
        /\ i < j
        /\ KeyOfNode(i) = Key(SecondPartyName, "1.0.0")
        /\ KeyOfNode(j) = Key(SecondPartyName, "1.0.0")

\* the ordinary dependencies the manifest of project p declares that the
\* backend did not stage, by position
MissingDeclared(p) == {i \in 1..Len(ordinary[p]) : ~staging[ordinary[p][i]].present}

C18_NeverLinked ==
  \A i \in 1..Len(projects) :
     LET p == projects[i].packageName
     IN MissingDeclared(p) # {} =>
          /\ ~NestedLinked(i)
          /\ nproj <= i
          /\ (nproj = i /\ npc = "failed") =>
               /\ nerror.kind = "MissingDependencyError"
               /\ nerror.project = p
               /\ \E m \in MissingDeclared(p) :
                     /\ nerror.dependency = ordinary[p][m].name
                     /\ \A n \in MissingDeclared(p) : m <= n

C18_MissingThrows ==
  [][(npc = "ordinary" /\ ndep \in MissingDeclared(projects[nproj].packageName)) =>
       /\ npc' = "failed"
       /\ nerror'.kind = "MissingDependencyError"
       /\ nerror'.project = projects[nproj].packageName
       /\ nerror'.dependency = ordinary[projects[nproj].packageName][ndep].name
       /\ nestedLinks' = nestedLinks]_vars

\* C18: a project whose manifest declares an ordinary dependency that the
\* staging output of the backend lacks is never linked: the step that reaches
\* the dependency ends the linking with a MissingDependencyError that carries
\* the project and the dependency, and no link of the project is created.
C18_MissingDependency == []C18_NeverLinked /\ C18_MissingThrows

C18_Witness ==
  /\ npc = "failed"
  /\ nproj = 2
  /\ nerror = [kind |-> "MissingDependencyError", project |-> "b",
               dependency |-> SecondPartyName]
  /\ Len(ordinary["a"]) = 2
  /\ nestedLinks[DepsPath(ProjectFolderPath("a"), SecondPartyName)] # NoPath
  /\ nestedLinks[DepsPath(ProjectFolderPath("b"), SecondPartyName)] = NoPath

---------------------------------------------------------------------------
(* The ".bin" link and the root of the tree *)

\* the project at index i of the configuration has been linked to its end in
\* the run: _linkProject() returned for it
LinkedInRun(i) ==
  /\ runs > 0
  /\ \/ projIdx > i
     \/ projIdx = i /\ (pc = "save" \/ (pc = "idle" /\ result = "resolved"))

BinLinkOf(p) == NodeModulesPath(FolderOf(p), BinName)

\* C21: for every project _linkProject() has returned for in the run, with
\* or without dependencies: when the ".bin" folder of the common temp folder
\* exists, _createSymlink created the project's node_modules/.bin once in the
\* run and the link points at that folder; when it does not exist, no ".bin"
\* link was created and what was at the path is still there.  A project that
\* has not been linked to its end has no ".bin" link created in the run.
C21_BinLinkedOncePerProject ==
  \A i \in 1..Len(projects) :
     LET p == projects[i].packageName
     IN /\ LinkedInRun(i) =>
             IF commonBinExists
             THEN /\ linkCount[p][BinName] = 1
                  /\ LinkAt(p, BinName) = Symlink(commonBinFolder)
                  /\ [path |-> BinLinkOf(p), target |-> commonBinFolder] \in created
             ELSE /\ linkCount[p][BinName] = 0
                  /\ LinkAt(p, BinName) = atRunStart.nodeModules[p][BinName]
                  /\ \A c \in created : c.path # BinLinkOf(p)
        /\ ~LinkedInRun(i) => linkCount[p][BinName] = 0

C21_Witness ==
  /\ Succeeded
  /\ commonBinExists
  /\ rushDependencies["a"] # <<>>
  /\ dependencies["a"] # <<>>
  /\ rushDependencies["c"] = <<>> /\ dependencies["c"] = <<>>
  /\ linkCount["c"][BinName] = 1
  /\ linkCount["a"][BinName] = 1
  /\ LinkAt("c", BinName) = Symlink(commonBinFolder)
  /\ runs = 2

ProjectFolders == {projects[i].projectFolder : i \in 1..Len(projects)}

\* C22: the root of the tree of a project has the folder of the project as
\* folderPath and no symlink target, and the folder is a real directory; no
\* _createSymlink call of a run, made or about to be made, has a project
\* folder as its link path: every link path is an entry below the
\* node_modules folder of a project, so the project folder is not removed,
\* replaced or turned into a link.
C22_RootIsProjectFolder ==
  /\ \A i \in 1..Len(projects) :
        LET root == LocalPackage(projects[i])
        IN /\ root.folderPath = projects[i].projectFolder
           /\ root.symlinkTargetFolderPath = NoPath
           /\ lstatSync(root.folderPath) = RealDir
  /\ \A c \in created :
        /\ c.path \notin ProjectFolders
        /\ c.path.area = "project/node_modules"
        /\ c.path.entry \in LinkNames
  /\ \A i \in 1..Len(children) : children[i].folderPath \notin ProjectFolders
  /\ NextLinkSource \notin ProjectFolders

C22_Witness ==
  /\ Succeeded
  /\ \E c \in created : c.path.owner = "a" /\ c.target = FolderOf("b")
  /\ \E c \in created : c.path.owner = "b" /\ c.target = FolderOf("a")
  /\ lstatSync(FolderOf("a")) = RealDir
  /\ lstatSync(FolderOf("b")) = RealDir

\* the target the link of project p for the name d is created with
ExpectedTarget(p, d) ==
  IF d \in Range(rushDependencies[p])
  THEN FolderOf(d)
  ELSE dependencyLocalInstallationSymlink(getProjectByName(p)[1], d)

\* the names of the children of the tree of project p
ChildNamesOf(p) == Range(rushDependencies[p]) \cup Range(dependencies[p])

\* C23: in a run, once the project at index i is done (the loop has gone on
\* to the next project, or to the save of the manifest, or the manifest is
\* written), every link of a child of the project has been created, once,
\* and is in place with its target; while a project is being linked no link
\* of a later project has been created and the manifest has not been written.
C23_LinksBeforeDone ==
  \A i \in 1..Len(projects) :
     LET p == projects[i].packageName
     IN /\ LinkedInRun(i) =>
             \A d \in ChildNamesOf(p) :
                /\ linkCount[p][d] = 1
                /\ LinkAt(p, d) = Symlink(ExpectedTarget(p, d))
        /\ (runs > 0 /\ projIdx < i) =>
             /\ \A n \in LinkNames : linkCount[p][n] = 0
             /\ saves = 0
        /\ (pc = "save" \/ saves > 0) => LinkedInRun(i)

C23_Witness ==
  /\ pc = "dependencies"
  /\ projIdx = 2
  /\ Len(rushDependencies["a"]) = 2
  /\ Len(dependencies["a"]) = 1
  /\ \A d \in ChildNamesOf("a") : linkCount["a"][d] = 1
  /\ saves = 0

\* the pairs (P, D) a localLinks object records
PairsOf(localLinks) ==
  UNION {{<<localLinks[i].key, d>> : d \in Range(localLinks[i].value)} :
           i \in 1..Len(localLinks)}

\* the pairs (P, D) the temp package.json files declare
DeclaredPairs ==
  UNION {{<<p, d>> : d \in Range(rushDependencies[p])} : p \in ProjectNames}

\* C24: nothing is carried from one run to the next: the rush-link.json a run
\* that resolves has written records the pairs (P, D) the run found declared,
\* each once, and no other pair, so a pair of the rush-link.json the run found
\* that is no longer declared is gone; and the tree of a project starts with
\* no children, whatever the run before left.
C24_NothingCarriedOver ==
  /\ Succeeded =>
       LET localLinks == rushLinkJsonFile.localLinks
       IN /\ PairsOf(localLinks) = DeclaredPairs
          /\ \A i \in 1..Len(localLinks) :
                Len(localLinks[i].value) = Cardinality(Range(localLinks[i].value))
          /\ \A pair \in PairsOf(atRunStart.rushLinkJsonFile.localLinks) :
                pair \notin DeclaredPairs => pair \notin PairsOf(localLinks)
  /\ (pc \in {"rushDependencies", "dependencies"} /\ depIdx = 1 /\ pc = EnterProject(projects[projIdx].packageName))
       => children = <<>>

C24_Witness ==
  /\ Succeeded
  /\ runs = 1
  /\ atRunStart.rushLinkJsonFile = JsonFileOf(OldRushLinkJson)
  /\ rushDependencies["b"] = <<>>
  /\ <<"b", "a">> \notin PairsOf(rushLinkJsonFile.localLinks)
  /\ <<"a", "b">> \in PairsOf(rushLinkJsonFile.localLinks)

---------------------------------------------------------------------------
(* The order of the checks and the links *)

PreconditionErrorTexts == {"Cannot find dependency"} \cup BackendErrorTexts

\* no link of project p has been created, removed or replaced in the run
UntouchedInRun(p) ==
  /\ \A n \in LinkNames : linkCount[p][n] = 0
  /\ \A c \in created : c.path.owner # FolderOf(p).owner
  /\ nodeModules[p] = atRunStart.nodeModules[p]

\* C27: while the two loops of _linkProject() check the keys of a project
\* (each rushDependencies key matches a project; what PNPM installed for each
\* dependencies key exists and is a symlink), and once one of these checks has
\* thrown, no link of the project has been created, removed or replaced in the
\* run: its node_modules folder is as the run found it.
C27_ChecksBeforeLinks ==
  /\ pc \in {"rushDependencies", "dependencies"} =>
       UntouchedInRun(projects[projIdx].packageName)
  /\ error.text \in PreconditionErrorTexts =>
       UntouchedInRun(projects[projIdx].packageName)

C27_Witness ==
  /\ Failed
  /\ projIdx = 1
  /\ error.text = "Dependency is not a symlink"
  /\ Len(children) = 2
  /\ atRunStart.nodeModules["a"][BinName] = RealDir
  /\ UntouchedInRun("a")
  /\ runs = 1

\* C28: once a statement of the _linkProject() of a project has thrown, the
\* for loop is left (the run is in its catch block or has ended), and no
\* project that follows the failing one in this._rushConfiguration.projects
\* has a link created, removed or replaced in the run.
C28_StopsAtFirstFailure ==
  error # NoError =>
    /\ pc \in {"catch", "idle"}
    /\ \A i \in 1..Len(projects) :
          i > projIdx => UntouchedInRun(projects[i].packageName)

C28_Witness ==
  /\ Failed
  /\ projIdx = 1
  /\ error.text = ConflictText
  /\ created # {}
  /\ rushDependencies["b"] = <<"a">>
  /\ dependencies["b"] = <<ThirdPartyName>>
  /\ ~BadInstallation(projects[2], ThirdPartyName)
  /\ commonBinExists
  /\ UntouchedInRun("b")

\* the localLinks object holds no empty sequence, and a key for p when, and
\* only when, pushed names of p are wanted
KeysFor(localLinks, wanted) ==
  /\ \A i \in 1..Len(localLinks) : localLinks[i].value # <<>>
  /\ \A p \in ProjectNames : HasKey(localLinks, p) <=> wanted[p] # <<>>

\* the keys of rushDependencies of the project at index i the loop of lines
\* 81-113 has pushed so far in the run
PushedSoFar(i) ==
  LET keys == rushDependencies[projects[i].packageName]
  IN CASE runs = 0 -> <<>>
       [] i < projIdx -> keys
       [] i > projIdx -> <<>>
       [] pc = "rushDependencies" /\ error = NoError -> SubSeq(keys, 1, depIdx - 1)
       [] error.text = "Cannot find dependency" -> SubSeq(keys, 1, depIdx - 1)
       [] OTHER -> keys

\* C29: the localLinks object of a run never holds an empty sequence: a
\* project is a key of it when, and only when, a rushDependencies key of the
\* project has been pushed, and its value is the sequence of the keys pushed;
\* in the rush-link.json a run that resolves has written, a project is a key
\* if and only if its temp package.json has a rushDependencies key, so a
\* project with dependencies keys only is no key of the file.
C29_NoEmptyLocalLinks ==
  /\ KeysFor(rushLinkJson, [p \in ProjectNames |-> PushedSoFar(IndexOf(p))])
  /\ \A p \in ProjectNames : LocalLinksOf(rushLinkJson, p) = PushedSoFar(IndexOf(p))
  /\ Succeeded => KeysFor(rushLinkJsonFile.localLinks, rushDependencies)

C29_Witness ==
  /\ Succeeded
  /\ rushDependencies["a"] # <<>>
  /\ rushDependencies["b"] = <<>>
  /\ dependencies["b"] = <<ThirdPartyName>>
  /\ LinkAt("b", ThirdPartyName).kind = "symlink"
  /\ HasKey(rushLinkJsonFile.localLinks, "a")
  /\ ~HasKey(rushLinkJsonFile.localLinks, "b")
  /\ ~HasKey(rushLinkJsonFile.localLinks, "c")

---------------------------------------------------------------------------
(* The prompt loop of ChangeAction *)

\* the prompt loop has ended: _detectOrAskForEmail has been called
LoopEnded == changePc \in {"email", "writing", "done"}

\* the last two tokens of the content of a change file
EmailOfFile(file) == SubSeq(file.data, Len(file.data) - 1, Len(file.data))

C25_AskedOnceThenEmail ==
  /\ \A p \in ChangePackages :
        /\ asked[p] <= 1
        /\ asked[p] = 1 => p \in Range(changedPackages)
  /\ LoopEnded =>
       /\ sortedProjectList = <<>>
       /\ \A p \in Range(changedPackages) : asked[p] = 1
  /\ changePc \in {"run", "asking", "email", "nothing"} =>
       /\ collectedEmail = Undefined
       /\ NoWriteFileCalls
       /\ changeFiles = changeFilesAtStart
  /\ changePc \in {"writing", "done"} =>
       /\ collectedEmail \in UserEmails
       /\ \A i \in 1..Len(changeFileData) : changeFileData[i].email = collectedEmail
  /\ \A path \in ChangePaths :
        changeFiles[path] # changeFilesAtStart[path] =>
          /\ changeFiles[path].kind = "file"
          /\ EmailOfFile(changeFiles[path]) = <<"email", collectedEmail>>
          /\ \E cf \in Range(changeFileData) :
                generatePath(cf) = path /\ changeFiles[path] = RegularFile(JSON_stringify(cf))

C25_LoopTerminates == <>(changePc \notin {"run", "asking"})

\* C25: _askQuestions is called at most once for a package, and only for a
\* changed package; when the loop has ended the list is empty and every
\* changed package has been asked about once; before that no email is
\* collected, _writeFile is not called and no change file is touched; a
\* change file that is written holds the collected email; and, every prompt
\* being answered, the loop ends.
C25_PromptLoop == []C25_AskedOnceThenEmail /\ C25_LoopTerminates

C25_Witness ==
  /\ changePc = "done"
  /\ changedPackages = <<"b", "a">>
  /\ asked["a"] = 1 /\ asked["b"] = 1
  /\ collectedEmail = "bob@example.com"
  /\ Len(changeFileData) = 2
  /\ changeFilesAtStart[generatePath(ChangeFileOf("a"))].kind = "file"
  /\ \A path \in ChangePaths :
        /\ changeFiles[path] # changeFilesAtStart[path]
        /\ EmailOfFile(changeFiles[path]) = <<"email", "bob@example.com">>

---------------------------------------------------------------------------
(* ChangelogGenerator.updateIndividualChangelog,
   src/apps/rush-lib/src/cli/logic/ChangelogGenerator.ts *)

\* bound: calls of updateIndividualChangelog in one behaviour
MaxUpdates == 3

\* the project whose changelog is updated, and the versions it is bumped to
ChangelogPackage == "a"
ChangelogVersions == {"1.0.0", "1.1.0", "2.0.0"}

\* ChangeType[individualChange.changeType]
ChangeTypeNames == {"patch", "minor"}

\* change.changes of a change request: nothing, one commented change, or an
\* uncommented change followed by a commented one of the same type
ChangeLists ==
  {<<>>,
   <<[comment |-> "fix", changeType |-> "minor"]>>,
   <<[comment |-> "", changeType |-> "patch"],
     [comment |-> "fix", changeType |-> "patch"]>>}

ChangeRequests ==
  {[packageName |-> ChangelogPackage, newVersion |-> v, changes |-> ch] :
     v \in ChangelogVersions, ch \in ChangeLists}

\* PublishUtilities.createTagname(packageName, version)
createTagname(packageName, version) == <<packageName, "_v", version>>

\* the comments of lines 128-143: per change type, the comments of the changes
\* of that type that have one, in their order; a type with no comment has no
\* key, which reads as the empty list
CommentsOf(changes) ==
  [t \in ChangeTypeNames |->
     LET ofType == SelectSeq(changes, LAMBDA c : c.comment # "" /\ c.changeType = t)
     IN [i \in 1..Len(ofType) |-> ofType[i].comment]]

\* the changelogEntry of lines 121-143; now is new Date().toUTCString()
changelogEntry(change, now) ==
  [version |-> change.newVersion,
   tag |-> createTagname(change.packageName, change.newVersion),
   date |-> now,
   comments |-> CommentsOf(change.changes)]

\* JSON.stringify(changelog, undefined, 2): the keys and values in order,
\* each entry as its own run of keys and values
stringifyEntry(entry) ==
  <<"version", entry.version, "tag", entry.tag, "date", entry.date,
    "comments", entry.comments>>

stringifyChangelog(changelog) ==
  <<"name", changelog.name, "entries",
    [i \in 1..Len(changelog.entries) |-> stringifyEntry(changelog.entries[i])]>>

\* JSON.parse of such a text
parseEntry(text) ==
  [version |-> text[2], tag |-> text[4], date |-> text[6], comments |-> text[8]]

parseChangelog(text) ==
  [name |-> text[2], entries |-> [i \in 1..Len(text[4]) |-> parseEntry(text[4][i])]]

\* _getChangelog, lines 174-195: the changelog of the file, under the
\* package's name, or a new one without entries
getChangelog(packageName, file) ==
  IF file # NoText
  THEN [parseChangelog(file) EXCEPT !.name = packageName]
  ELSE [name |-> packageName, entries |-> <<>>]

\* _getChangeComments: a titled list of the comments, nothing without the key
getChangeComments(title, commentsArray) ==
  IF commentsArray # <<>> THEN <<"### ", title>> \o commentsArray ELSE <<>>

\* _translateToMarkdown, lines 200-252, entry by entry
RECURSIVE translateEntries(_, _, _)
translateEntries(entries, index, isLockstepped) ==
  IF index > Len(entries)
  THEN <<>>
  ELSE LET entry == entries[index]
           comments ==
             getChangeComments("Minor changes", entry.comments["minor"])
               \o getChangeComments("Patches", entry.comments["patch"])
       IN <<"## ", entry.version, entry.date>>
            \o (IF comments = <<>>
                THEN IF Len(entries) = index
                     THEN <<"*Initial release*">>
                     ELSE <<"*Version update only*">>
                ELSE comments)
            \o translateEntries(entries, index + 1, isLockstepped)

translateToMarkdown(changelog, isLockstepped) ==
  <<"# Change Log - ", changelog.name>>
    \o translateEntries(changelog.entries, 1, isLockstepped)

\* a test that looks at the newest entry only
someFirstOnly(entries, version) ==
  entries # <<>> /\ entries[1].version = version

\* changelog.entries.some(entry => entry.version === change.newVersion), line 119
some(entries, version) ==
  \E i \in 1..Len(entries) : entries[i].version = version

\* updateIndividualChangelog, lines 105-169: what it returns and what
\* CHANGELOG.json and CHANGELOG.md hold afterwards
updateIndividualChangelog(change, file, md, now, shouldCommit, isLockstepped, isMain) ==
  IF isLockstepped /\ ~isMain
  THEN [returned |-> UndefinedChangelog, file |-> file, md |-> md]
  ELSE LET changelog == getChangelog(change.packageName, file)
       IN IF ~some(changelog.entries, change.newVersion)
          THEN LET updated ==
                     [changelog EXCEPT
                        !.entries = <<changelogEntry(change, now)>> \o @]
               IN IF shouldCommit
                  THEN [returned |-> updated,
                        file |-> stringifyChangelog(updated),
                        md |-> translateToMarkdown(updated, isLockstepped)]
                  ELSE [returned |-> updated, file |-> file, md |-> md]
          ELSE [returned |-> UndefinedChangelog, file |-> file, md |-> md]

\* the changelogs a project folder can hold before the first update: none, or
\* one written by earlier publishes, with one entry per published version
OldEntry(version) ==
  changelogEntry([packageName |-> ChangelogPackage, newVersion |-> version,
                  changes |-> <<>>], 0)

OldChangelogs ==
  {[name |-> ChangelogPackage, entries |-> <<>>],
   [name |-> ChangelogPackage, entries |-> <<OldEntry("1.0.0")>>],
   [name |-> "old-name", entries |-> <<OldEntry("1.1.0"), OldEntry("1.0.0")>>]}

ChangelogInit ==
  /\ LinkingNotStarted
  /\ NoChangeFiles
  /\ ChangeNotStarted
  /\ PromptNotStarted
  /\ FinderNotStarted
  /\ WorkersNotStarted
  /\ NestedNotStarted
  /\ \/ changelogFile = NoText /\ changelogMd = NoText
     \/ \E old \in OldChangelogs :
          /\ changelogFile = stringifyChangelog(old)
          /\ changelogMd = translateToMarkdown(old, FALSE)
  /\ updates = 0
  /\ lastUpdate = NoUpdate

UpdateIndividualChangelog(change, shouldCommit, isLockstepped, isMain) ==
  /\ updates < MaxUpdates
  /\ updates' = updates + 1
  /\ LET outcome == updateIndividualChangelog(change, changelogFile, changelogMd,
                                             updates + 1, shouldCommit,
                                             isLockstepped, isMain)
     IN /\ changelogFile' = outcome.file
        /\ changelogMd' = outcome.md
        /\ lastUpdate' = [called |-> TRUE, change |-> change,
                          shouldCommit |-> shouldCommit,
                          isLockstepped |-> isLockstepped, isMain |-> isMain,
                          fileBefore |-> changelogFile, mdBefore |-> changelogMd,
                          returned |-> outcome.returned]
  /\ UNCHANGED exceptChangelog

ChangelogNext ==
  \E change \in ChangeRequests, shouldCommit \in BOOLEAN,
     isLockstepped \in BOOLEAN, isMain \in BOOLEAN :
    UpdateIndividualChangelog(change, shouldCommit, isLockstepped, isMain)

ChangelogSpec == ChangelogInit /\ [][ChangelogNext]_vars

---------------------------------------------------------------------------
(* C26 *)

\* the versions of the entries of CHANGELOG.json
VersionsOnDisk ==
  LET entries == getChangelog(ChangelogPackage, changelogFile).entries
  IN [i \in 1..Len(entries) |-> entries[i].version]

NoTwoAlike(versions) ==
  \A i, j \in 1..Len(versions) : versions[i] = versions[j] => i = j

\* C26: an update returns a changelog exactly when the project hosts change
\* logs and no entry of CHANGELOG.json has the change's new version, and that
\* changelog is the old one with the new entry first; otherwise it returns
\* undefined and both files stay as they were; without shouldCommit both files
\* stay as they were too; with it the returned changelog is what
\* CHANGELOG.json holds; and no two entries on disk have the same version
C26_NewEntryOnlyForNewVersion ==
  /\ NoTwoAlike(VersionsOnDisk)
  /\ lastUpdate.called =>
       LET before == getChangelog(lastUpdate.change.packageName, lastUpdate.fileBefore)
           version == lastUpdate.change.newVersion
           existing == \E i \in 1..Len(before.entries) :
                          before.entries[i].version = version
           hosts == ~(lastUpdate.isLockstepped /\ ~lastUpdate.isMain)
           unchanged == /\ changelogFile = lastUpdate.fileBefore
                        /\ changelogMd = lastUpdate.mdBefore
       IN /\ (lastUpdate.returned # UndefinedChangelog) <=> (hosts /\ ~existing)
          /\ lastUpdate.returned # UndefinedChangelog =>
               /\ Len(lastUpdate.returned.entries) = Len(before.entries) + 1
               /\ lastUpdate.returned.entries[1].version = version
               /\ Tail(lastUpdate.returned.entries) = before.entries
               /\ lastUpdate.shouldCommit =>
                    getChangelog(ChangelogPackage, changelogFile) = lastUpdate.returned
          /\ lastUpdate.returned = UndefinedChangelog => unchanged
          /\ ~lastUpdate.shouldCommit => unchanged

\* an update was refused for a version already in CHANGELOG.json, after an
\* update that was written had added that version to a changelog that held
\* another one
C26_Witness ==
  /\ lastUpdate.called
  /\ lastUpdate.shouldCommit
  /\ ~(lastUpdate.isLockstepped /\ ~lastUpdate.isMain)
  /\ lastUpdate.returned = UndefinedChangelog
  /\ Len(VersionsOnDisk) >= 2
  /\ VersionsOnDisk[1] # lastUpdate.change.newVersion
  /\ \E i \in 2..Len(VersionsOnDisk) : VersionsOnDisk[i] = lastUpdate.change.newVersion
  /\ getChangelog(ChangelogPackage, changelogFile).entries[1].date > 0

---------------------------------------------------------------------------
(* VersionMismatchFinder, src/unnamed/part_001 lines 498-594 *)

\* bound: entries of one dependency map of a package.json
MaxDeclared == 1

\* the packages the projects depend on, and the version strings they ask for
FinderNames == {"x", "y"}
FinderVersions == {"1.0.0", "^1.0.0"}

\* a dependency map of a package.json: its keys in the order of Object.keys,
\* each with its version string; an undefined map reads as one without keys
DependencyMaps ==
  UNION {{[i \in 1..Len(names) |-> [dependency |-> names[i], version |-> versions[i]]] :
            versions \in [1..Len(names) -> FinderVersions]} :
           names \in DistinctSeqs(FinderNames, MaxDeclared)}

\* the four maps _analyze reads, in its order
DependencyKinds ==
  <<"dependencies", "devDependencies", "peerDependencies", "optionalDependencies">>

\* the projects handed to the constructor: one that declares dependencies and
\* devDependencies and may name "x" as a cyclic dependency project, and one
\* that declares peerDependencies and optionalDependencies
FinderProjectLists ==
  {<<[packageName |-> "a", skipRushCheck |-> skipA, cyclicDependencyProjects |-> cyclic,
      dependencies |-> deps, devDependencies |-> devDeps,
      peerDependencies |-> <<>>, optionalDependencies |-> <<>>],
     [packageName |-> "b", skipRushCheck |-> skipB, cyclicDependencyProjects |-> {},
      dependencies |-> <<>>, devDependencies |-> <<>>,
      peerDependencies |-> peerDeps, optionalDependencies |-> optionalDeps]>> :
     skipA \in BOOLEAN, skipB \in BOOLEAN, cyclic \in {{}, {"x"}},
     deps \in DependencyMaps, devDeps \in DependencyMaps,
     peerDeps \in DependencyMaps, optionalDeps \in DependencyMaps}

\* Map.has and the place of a key in a Map kept in insertion order
MapHas(map, key) == \E i \in 1..Len(map) : map[i].key = key
MapIndex(map, key) == CHOOSE i \in 1..Len(map) : map[i].key = key

\* the body of the forEach of lines 565-579 for one dependency that is not
\* excluded: the dependency and the version get their Maps and lists when they
\* have none, and the project is pushed on the consumers of the version
addDependency(map, project, dependency, version) ==
  LET withDependency ==
        IF ~MapHas(map, dependency)
        THEN Append(map, [key |-> dependency, value |-> <<>>])
        ELSE map
      i == MapIndex(withDependency, dependency)
      dependencyVersions == withDependency[i].value
      withVersion ==
        IF ~MapHas(dependencyVersions, version)
        THEN Append(dependencyVersions, [key |-> version, value |-> <<>>])
        ELSE dependencyVersions
      j == MapIndex(withVersion, version)
  IN [withDependency EXCEPT
        ![i].value = [withVersion EXCEPT ![j].value = Append(@, project)]]

\* _addDependenciesToList, lines 559-581, from the key at index on
RECURSIVE addDependenciesToList(_, _, _, _, _)
addDependenciesToList(map, project, dependencyMap, exclude, index) ==
  IF index > Len(dependencyMap)
  THEN map
  ELSE LET dependency == dependencyMap[index].dependency
           next ==
             IF dependency \notin exclude
             THEN addDependency(map, project, dependency, dependencyMap[index].version)
             ELSE map
       IN addDependenciesToList(next, project, dependencyMap, exclude, index + 1)

\* the four calls of lines 541-548 for one project
RECURSIVE addProject(_, _, _)
addProject(map, project, kind) ==
  IF kind > Len(DependencyKinds)
  THEN map
  ELSE addProject(addDependenciesToList(map, project.packageName,
                                        project[DependencyKinds[kind]],
                                        project.cyclicDependencyProjects, 1),
                  project, kind + 1)

\* the first forEach of _analyze, lines 539-550
RECURSIVE addProjects(_, _, _)
addProjects(map, projectList, index) ==
  IF index > Len(projectList)
  THEN map
  ELSE addProjects(IF ~projectList[index].skipRushCheck
                   THEN addProject(map, projectList[index], 1)
                   ELSE map,
                   projectList, index + 1)

\* a second forEach that deletes only the dependencies nobody declares
NoMismatchOnlyIfEmpty(versions) == Len(versions) < 1

\* mismatches.size <= 1, line 553
NoMismatch(versions) == Len(versions) <= 1

\* _analyze, lines 538-557: the second forEach deletes the dependencies with
\* at most one version; a Map's forEach visits every entry that is not
\* deleted before its turn, so each entry is tested once
analyze(projectList) ==
  SelectSeq(addProjects(<<>>, projectList, 1), LAMBDA entry : ~NoMismatch(entry.value))

\* numberOfMismatches, getMismatches and getVersionsOfMismatch, lines 514-526
numberOfMismatches == Len(mismatches)
getMismatches == [i \in 1..Len(mismatches) |-> mismatches[i].key]
getVersionsOfMismatch(mismatch) ==
  LET versions == mismatches[MapIndex(mismatches, mismatch)].value
  IN [i \in 1..Len(versions) |-> versions[i].key]

FinderInit ==
  /\ LinkingNotStarted
  /\ NoChangeFiles
  /\ ChangeNotStarted
  /\ PromptNotStarted
  /\ ChangelogNotStarted
  /\ WorkersNotStarted
  /\ NestedNotStarted
  /\ finderProjects \in FinderProjectLists
  /\ mismatches = <<>>
  /\ finderPc = "none"

\* new VersionMismatchFinder(projects), lines 509-512
Construct ==
  /\ finderPc = "none"
  /\ mismatches' = analyze(finderProjects)
  /\ finderPc' = "constructed"
  /\ UNCHANGED <<exceptFinder, finderProjects>>

FinderNext == Construct

FinderSpec == FinderInit /\ [][FinderNext]_vars

---------------------------------------------------------------------------
(* C30 *)

\* the version strings the projects that do not set skipRushCheck ask for a
\* dependency with, leaving out what a project names as a cyclic dependency
\* project
DeclaredVersions(dependency) ==
  {version \in FinderVersions :
     \E p \in 1..Len(finderProjects), kind \in 1..Len(DependencyKinds) :
       LET project == finderProjects[p]
           dependencyMap == project[DependencyKinds[kind]]
       IN /\ ~project.skipRushCheck
          /\ dependency \notin project.cyclicDependencyProjects
          /\ \E i \in 1..Len(dependencyMap) :
               /\ dependencyMap[i].dependency = dependency
               /\ dependencyMap[i].version = version}

Mismatched == {dependency \in FinderNames : Cardinality(DeclaredVersions(dependency)) >= 2}

\* C30: once the finder is constructed, the names it reports are exactly the
\* dependencies that the projects without skipRushCheck declare with two or
\* more distinct version strings, each project's cyclicDependencyProjects left
\* out; numberOfMismatches is the number of these names, and the versions
\* reported for a name are the ones declared
C30_MismatchesAreTheTwoVersionNames ==
  finderPc = "constructed" =>
    /\ Range(getMismatches) = Mismatched
    /\ numberOfMismatches = Cardinality(Mismatched)
    /\ \A mismatch \in Range(getMismatches) :
         Range(getVersionsOfMismatch(mismatch)) = DeclaredVersions(mismatch)

\* the finder reports "y", which two projects ask for with two versions, and
\* not "x", which they also ask for with two versions but which the first
\* project names as a cyclic dependency project
C30_Witness ==
  /\ finderPc = "constructed"
  /\ getMismatches = <<"y">>
  /\ numberOfMismatches = 1
  /\ "x" \in finderProjects[1].cyclicDependencyProjects
  /\ \E i \in 1..Len(finderProjects[1].dependencies) :
       /\ finderProjects[1].dependencies[i].dependency = "x"
       /\ finderProjects[1].dependencies[i].version = "1.0.0"
  /\ \E i \in 1..Len(finderProjects[2].peerDependencies) :
       /\ finderProjects[2].peerDependencies[i].dependency = "x"
       /\ finderProjects[2].peerDependencies[i].version = "^1.0.0"
  /\ ~finderProjects[1].skipRushCheck
  /\ ~finderProjects[2].skipRushCheck

====
